---------------------------- MODULE Spec2Model ----------------------------
(***************************************************************************)
(* A model of the Japanese daily episodes scanner (src/jp_scanner.py):     *)
(* the pattern registry built at import, the per-file resolution cascade,  *)
(* the match resolver, the multi-episode expander and the Scan entry       *)
(* point.                                                                  *)
(*                                                                         *)
(* Text is a sequence of one-character strings.  A Python value is a       *)
(* tagged record: PyNone, PyStr(text) or PyInt(n).  The calls into the     *)
(* standard library (re, hashlib, time) are tables of their results on the *)
(* file names of the universe; everything the scanner itself computes is   *)
(* computed here.                                                          *)
(***************************************************************************)
EXTENDS Integers, Sequences, FiniteSets, TLC

\* ------------------------------------------------------------------------
\* Python values
\* ------------------------------------------------------------------------
PyNone == [t |-> "None"]
PyStr(s) == [t |-> "str", s |-> s]
PyInt(n) == [t |-> "int", n |-> n]

IsNone(v) == v.t = "None"
IsStr(v) == v.t = "str"
IsInt(v) == v.t = "int"

\* bool(v)
Truthy(v) ==
  CASE v.t = "None" -> FALSE
    [] v.t = "str" -> v.s # <<>>
    [] v.t = "int" -> v.n # 0

\* a == b
PyEq(a, b) ==
  /\ a.t = b.t
  /\ CASE a.t = "None" -> TRUE
       [] a.t = "str" -> a.s = b.s
       [] a.t = "int" -> a.n = b.n

\* dict.get(key) with the default None
Get(d, key) == IF key \in DOMAIN d THEN d[key] ELSE PyNone

EmptyDict == <<>>

\* ---- library tables: begin ----
\* The characters of each file name of the universe.
Chars ==
     ("240702 Morning News.mkv" :> <<"2", "4", "0", "7", "0", "2", " ", "M", "o", "r", "n", "i", "n", "g", " ", "N", "e", "w", "s", ".", "m", "k", "v">>)
  @@ ("240702 MORNING NEWS.mkv" :> <<"2", "4", "0", "7", "0", "2", " ", "M", "O", "R", "N", "I", "N", "G", " ", "N", "E", "W", "S", ".", "m", "k", "v">>)
  @@ ("20240702 Weather.mkv" :> <<"2", "0", "2", "4", "0", "7", "0", "2", " ", "W", "e", "a", "t", "h", "e", "r", ".", "m", "k", "v">>)
  @@ ("20240702 Anime.mkv" :> <<"2", "0", "2", "4", "0", "7", "0", "2", " ", "A", "n", "i", "m", "e", ".", "m", "k", "v">>)
  @@ ("2024-07-02 Evening Show.mkv" :> <<"2", "0", "2", "4", "-", "0", "7", "-", "0", "2", " ", "E", "v", "e", "n", "i", "n", "g", " ", "S", "h", "o", "w", ".", "m", "k", "v">>)
  @@ ("Show EP01-EP05 Title.mkv" :> <<"S", "h", "o", "w", " ", "E", "P", "0", "1", "-", "E", "P", "0", "5", " ", "T", "i", "t", "l", "e", ".", "m", "k", "v">>)
  @@ ("S01E05-E01 Reversed.mkv" :> <<"S", "0", "1", "E", "0", "5", "-", "E", "0", "1", " ", "R", "e", "v", "e", "r", "s", "e", "d", ".", "m", "k", "v">>)
  @@ ("S01E03 Single.mkv" :> <<"S", "0", "1", "E", "0", "3", " ", "S", "i", "n", "g", "l", "e", ".", "m", "k", "v">>)
  @@ ("S01E02-E04 Trio.mkv" :> <<"S", "0", "1", "E", "0", "2", "-", "E", "0", "4", " ", "T", "r", "i", "o", ".", "m", "k", "v">>)
  @@ ("random file.mkv" :> <<"r", "a", "n", "d", "o", "m", " ", "f", "i", "l", "e", ".", "m", "k", "v">>)
  @@ ("2024-07-02 E01-E05 Marathon.mkv" :> <<"2", "0", "2", "4", "-", "0", "7", "-", "0", "2", " ", "E", "0", "1", "-", "E", "0", "5", " ", "M", "a", "r", "a", "t", "h", "o", "n", ".", "m", "k", "v">>)
  @@ ("240705 [SomeGroup] My Show - Part 2.mkv" :> <<"2", "4", "0", "7", "0", "5", " ", "[", "S", "o", "m", "e", "G", "r", "o", "u", "p", "]", " ", "M", "y", " ", "S", "h", "o", "w", " ", "-", " ", "P", "a", "r", "t", " ", "2", ".", "m", "k", "v">>)
  @@ ("240705 [Group] - My Show - Part 2.mkv" :> <<"2", "4", "0", "7", "0", "5", " ", "[", "G", "r", "o", "u", "p", "]", " ", "-", " ", "M", "y", " ", "S", "h", "o", "w", " ", "-", " ", "P", "a", "r", "t", " ", "2", ".", "m", "k", "v">>)
  @@ ("1230702 Old Tape.mkv" :> <<"1", "2", "3", "0", "7", "0", "2", " ", "O", "l", "d", " ", "T", "a", "p", "e", ".", "m", "k", "v">>)
  @@ ("20240702 Live Stream [dQw4w9WgXcQ].mkv" :> <<"2", "0", "2", "4", "0", "7", "0", "2", " ", "L", "i", "v", "e", " ", "S", "t", "r", "e", "a", "m", " ", "[", "d", "Q", "w", "4", "w", "9", "W", "g", "X", "c", "Q", "]", ".", "m", "k", "v">>)
  @@ ("Live Stream [dQw4w9WgXcQ].mkv" :> <<"L", "i", "v", "e", " ", "S", "t", "r", "e", "a", "m", " ", "[", "d", "Q", "w", "4", "w", "9", "W", "g", "X", "c", "Q", "]", ".", "m", "k", "v">>)

\* pattern.match(stem).groupdict() of every main pattern on every stem of the universe;
\* a pair that is absent does not match.
MainMatchTable ==
     (<<"D2", <<"1", "2", "3", "0", "7", "0", "2", " ", "O", "l", "d", " ", "T", "a", "p", "e">>>> :> [day |-> PyStr(<<"0", "2">>), month |-> PyStr(<<"0", "7">>), title |-> PyStr(<<"O", "l", "d", " ", "T", "a", "p", "e">>), year |-> PyStr(<<"1", "2", "3">>)])
  @@ (<<"D2", <<"2", "0", "2", "4", "-", "0", "7", "-", "0", "2", " ", "E", "0", "1", "-", "E", "0", "5", " ", "M", "a", "r", "a", "t", "h", "o", "n">>>> :> [day |-> PyStr(<<"0", "2">>), month |-> PyStr(<<"0", "7">>), title |-> PyStr(<<"E", "0", "1", "-", "E", "0", "5", " ", "M", "a", "r", "a", "t", "h", "o", "n">>), year |-> PyStr(<<"2", "0", "2", "4">>)])
  @@ (<<"D2", <<"2", "0", "2", "4", "-", "0", "7", "-", "0", "2", " ", "E", "v", "e", "n", "i", "n", "g", " ", "S", "h", "o", "w">>>> :> [day |-> PyStr(<<"0", "2">>), month |-> PyStr(<<"0", "7">>), title |-> PyStr(<<"E", "v", "e", "n", "i", "n", "g", " ", "S", "h", "o", "w">>), year |-> PyStr(<<"2", "0", "2", "4">>)])
  @@ (<<"D2", <<"2", "0", "2", "4", "0", "7", "0", "2", " ", "A", "n", "i", "m", "e">>>> :> [day |-> PyStr(<<"0", "2">>), month |-> PyStr(<<"0", "7">>), title |-> PyStr(<<"A", "n", "i", "m", "e">>), year |-> PyStr(<<"2", "0", "2", "4">>)])
  @@ (<<"D2", <<"2", "0", "2", "4", "0", "7", "0", "2", " ", "L", "i", "v", "e", " ", "S", "t", "r", "e", "a", "m", " ", "[", "d", "Q", "w", "4", "w", "9", "W", "g", "X", "c", "Q", "]">>>> :> [day |-> PyStr(<<"0", "2">>), month |-> PyStr(<<"0", "7">>), title |-> PyStr(<<"L", "i", "v", "e", " ", "S", "t", "r", "e", "a", "m", " ", "[", "d", "Q", "w", "4", "w", "9", "W", "g", "X", "c", "Q", "]">>), year |-> PyStr(<<"2", "0", "2", "4">>)])
  @@ (<<"D2", <<"2", "0", "2", "4", "0", "7", "0", "2", " ", "W", "e", "a", "t", "h", "e", "r">>>> :> [day |-> PyStr(<<"0", "2">>), month |-> PyStr(<<"0", "7">>), title |-> PyStr(<<"W", "e", "a", "t", "h", "e", "r">>), year |-> PyStr(<<"2", "0", "2", "4">>)])
  @@ (<<"D2", <<"2", "4", "0", "7", "0", "2", " ", "M", "O", "R", "N", "I", "N", "G", " ", "N", "E", "W", "S">>>> :> [day |-> PyStr(<<"0", "2">>), month |-> PyStr(<<"0", "7">>), title |-> PyStr(<<"M", "O", "R", "N", "I", "N", "G", " ", "N", "E", "W", "S">>), year |-> PyStr(<<"2", "4">>)])
  @@ (<<"D2", <<"2", "4", "0", "7", "0", "2", " ", "M", "o", "r", "n", "i", "n", "g", " ", "N", "e", "w", "s">>>> :> [day |-> PyStr(<<"0", "2">>), month |-> PyStr(<<"0", "7">>), title |-> PyStr(<<"M", "o", "r", "n", "i", "n", "g", " ", "N", "e", "w", "s">>), year |-> PyStr(<<"2", "4">>)])
  @@ (<<"D2", <<"2", "4", "0", "7", "0", "5", " ", "[", "G", "r", "o", "u", "p", "]", " ", "-", " ", "M", "y", " ", "S", "h", "o", "w", " ", "-", " ", "P", "a", "r", "t", " ", "2">>>> :> [day |-> PyStr(<<"0", "5">>), month |-> PyStr(<<"0", "7">>), title |-> PyStr(<<"[", "G", "r", "o", "u", "p", "]", " ", "-", " ", "M", "y", " ", "S", "h", "o", "w", " ", "-", " ", "P", "a", "r", "t", " ", "2">>), year |-> PyStr(<<"2", "4">>)])
  @@ (<<"D2", <<"2", "4", "0", "7", "0", "5", " ", "[", "S", "o", "m", "e", "G", "r", "o", "u", "p", "]", " ", "M", "y", " ", "S", "h", "o", "w", " ", "-", " ", "P", "a", "r", "t", " ", "2">>>> :> [day |-> PyStr(<<"0", "5">>), month |-> PyStr(<<"0", "7">>), title |-> PyStr(<<"[", "S", "o", "m", "e", "G", "r", "o", "u", "p", "]", " ", "M", "y", " ", "S", "h", "o", "w", " ", "-", " ", "P", "a", "r", "t", " ", "2">>), year |-> PyStr(<<"2", "4">>)])
  @@ (<<"D4", <<"1", "2", "3", "0", "7", "0", "2", " ", "O", "l", "d", " ", "T", "a", "p", "e">>>> :> [day |-> PyStr(<<"0", "2">>), month |-> PyStr(<<"0", "7">>), series |-> PyStr(<<"1">>), title |-> PyStr(<<"O", "l", "d", " ", "T", "a", "p", "e">>), year |-> PyStr(<<"2", "3">>)])
  @@ (<<"D4", <<"2", "0", "2", "4", "-", "0", "7", "-", "0", "2", " ", "E", "0", "1", "-", "E", "0", "5", " ", "M", "a", "r", "a", "t", "h", "o", "n">>>> :> [day |-> PyStr(<<"0", "2">>), month |-> PyStr(<<"0", "7">>), series |-> PyStr(<<"2">>), title |-> PyStr(<<"E", "0", "1", "-", "E", "0", "5", " ", "M", "a", "r", "a", "t", "h", "o", "n">>), year |-> PyStr(<<"0", "2", "4">>)])
  @@ (<<"D4", <<"2", "0", "2", "4", "-", "0", "7", "-", "0", "2", " ", "E", "v", "e", "n", "i", "n", "g", " ", "S", "h", "o", "w">>>> :> [day |-> PyStr(<<"0", "2">>), month |-> PyStr(<<"0", "7">>), series |-> PyStr(<<"2">>), title |-> PyStr(<<"E", "v", "e", "n", "i", "n", "g", " ", "S", "h", "o", "w">>), year |-> PyStr(<<"0", "2", "4">>)])
  @@ (<<"D4", <<"2", "0", "2", "4", "0", "7", "0", "2", " ", "A", "n", "i", "m", "e">>>> :> [day |-> PyStr(<<"0", "2">>), month |-> PyStr(<<"0", "7">>), series |-> PyStr(<<"2">>), title |-> PyStr(<<"A", "n", "i", "m", "e">>), year |-> PyStr(<<"0", "2", "4">>)])
  @@ (<<"D4", <<"2", "0", "2", "4", "0", "7", "0", "2", " ", "L", "i", "v", "e", " ", "S", "t", "r", "e", "a", "m", " ", "[", "d", "Q", "w", "4", "w", "9", "W", "g", "X", "c", "Q", "]">>>> :> [day |-> PyStr(<<"0", "2">>), month |-> PyStr(<<"0", "7">>), series |-> PyStr(<<"2">>), title |-> PyStr(<<"L", "i", "v", "e", " ", "S", "t", "r", "e", "a", "m", " ", "[", "d", "Q", "w", "4", "w", "9", "W", "g", "X", "c", "Q", "]">>), year |-> PyStr(<<"0", "2", "4">>)])
  @@ (<<"D4", <<"2", "0", "2", "4", "0", "7", "0", "2", " ", "W", "e", "a", "t", "h", "e", "r">>>> :> [day |-> PyStr(<<"0", "2">>), month |-> PyStr(<<"0", "7">>), series |-> PyStr(<<"2">>), title |-> PyStr(<<"W", "e", "a", "t", "h", "e", "r">>), year |-> PyStr(<<"0", "2", "4">>)])
  @@ (<<"D5", <<"S", "h", "o", "w", " ", "E", "P", "0", "1", "-", "E", "P", "0", "5", " ", "T", "i", "t", "l", "e">>>> :> [episode |-> PyStr(<<"0", "1">>), series |-> PyStr(<<"S", "h", "o", "w">>), title |-> PyStr(<<"-", "E", "P", "0", "5", " ", "T", "i", "t", "l", "e">>)])
  @@ (<<"D6", <<"S", "0", "1", "E", "0", "2", "-", "E", "0", "4", " ", "T", "r", "i", "o">>>> :> [episode |-> PyStr(<<"0", "2">>), season |-> PyStr(<<"0", "1">>), title |-> PyStr(<<"E", "0", "4", " ", "T", "r", "i", "o">>)])
  @@ (<<"D6", <<"S", "0", "1", "E", "0", "3", " ", "S", "i", "n", "g", "l", "e">>>> :> [episode |-> PyStr(<<"0", "3">>), season |-> PyStr(<<"0", "1">>), title |-> PyStr(<<"S", "i", "n", "g", "l", "e">>)])
  @@ (<<"D6", <<"S", "0", "1", "E", "0", "5", "-", "E", "0", "1", " ", "R", "e", "v", "e", "r", "s", "e", "d">>>> :> [episode |-> PyStr(<<"0", "5">>), season |-> PyStr(<<"0", "1">>), title |-> PyStr(<<"E", "0", "1", " ", "R", "e", "v", "e", "r", "s", "e", "d">>)])
  @@ (<<"D9", <<"S", "h", "o", "w", " ", "E", "P", "0", "1", "-", "E", "P", "0", "5", " ", "T", "i", "t", "l", "e">>>> :> [episode |-> PyStr(<<"0", "1">>), series |-> PyStr(<<"S", "h", "o", "w">>), title |-> PyStr(<<"E", "P", "0", "5", " ", "T", "i", "t", "l", "e">>)])
  @@ (<<"U_TITLE", <<"L", "i", "v", "e", " ", "S", "t", "r", "e", "a", "m", " ", "[", "d", "Q", "w", "4", "w", "9", "W", "g", "X", "c", "Q", "]">>>> :> [title |-> PyStr(<<"L", "i", "v", "e", " ", "S", "t", "r", "e", "a", "m", " ">>)])
  @@ (<<"U_TITLE", <<"S", "0", "1", "E", "0", "2", "-", "E", "0", "4", " ", "T", "r", "i", "o">>>> :> [title |-> PyStr(<<"S">>)])
  @@ (<<"U_TITLE", <<"S", "0", "1", "E", "0", "3", " ", "S", "i", "n", "g", "l", "e">>>> :> [title |-> PyStr(<<"S">>)])
  @@ (<<"U_TITLE", <<"S", "0", "1", "E", "0", "5", "-", "E", "0", "1", " ", "R", "e", "v", "e", "r", "s", "e", "d">>>> :> [title |-> PyStr(<<"S">>)])
  @@ (<<"U_TITLE", <<"S", "h", "o", "w", " ", "E", "P", "0", "1", "-", "E", "P", "0", "5", " ", "T", "i", "t", "l", "e">>>> :> [title |-> PyStr(<<"S", "h", "o", "w", " ", "E", "P">>)])
  @@ (<<"U_TITLE", <<"r", "a", "n", "d", "o", "m", " ", "f", "i", "l", "e">>>> :> [title |-> PyStr(<<"r", "a", "n", "d", "o", "m", " ", "f", "i", "l", "e">>)])
  @@ (<<"U_EP", <<"2", "0", "2", "4", "-", "0", "7", "-", "0", "2", " ", "E", "0", "1", "-", "E", "0", "5", " ", "M", "a", "r", "a", "t", "h", "o", "n">>>> :> [day |-> PyStr(<<"0", "2">>), episode |-> PyStr(<<"0", "1">>), month |-> PyStr(<<"0", "7">>), year |-> PyStr(<<"2", "0", "2", "4">>)])
  @@ (<<"U_EMPTY", <<"1", "2", "3", "0", "7", "0", "2", " ", "O", "l", "d", " ", "T", "a", "p", "e">>>> :> <<>>)
  @@ (<<"U_EMPTY", <<"2", "0", "2", "4", "-", "0", "7", "-", "0", "2", " ", "E", "0", "1", "-", "E", "0", "5", " ", "M", "a", "r", "a", "t", "h", "o", "n">>>> :> <<>>)
  @@ (<<"U_EMPTY", <<"2", "0", "2", "4", "-", "0", "7", "-", "0", "2", " ", "E", "v", "e", "n", "i", "n", "g", " ", "S", "h", "o", "w">>>> :> <<>>)
  @@ (<<"U_EMPTY", <<"2", "0", "2", "4", "0", "7", "0", "2", " ", "A", "n", "i", "m", "e">>>> :> <<>>)
  @@ (<<"U_EMPTY", <<"2", "0", "2", "4", "0", "7", "0", "2", " ", "L", "i", "v", "e", " ", "S", "t", "r", "e", "a", "m", " ", "[", "d", "Q", "w", "4", "w", "9", "W", "g", "X", "c", "Q", "]">>>> :> <<>>)
  @@ (<<"U_EMPTY", <<"2", "0", "2", "4", "0", "7", "0", "2", " ", "W", "e", "a", "t", "h", "e", "r">>>> :> <<>>)
  @@ (<<"U_EMPTY", <<"2", "4", "0", "7", "0", "2", " ", "M", "O", "R", "N", "I", "N", "G", " ", "N", "E", "W", "S">>>> :> <<>>)
  @@ (<<"U_EMPTY", <<"2", "4", "0", "7", "0", "2", " ", "M", "o", "r", "n", "i", "n", "g", " ", "N", "e", "w", "s">>>> :> <<>>)
  @@ (<<"U_EMPTY", <<"2", "4", "0", "7", "0", "5", " ", "[", "G", "r", "o", "u", "p", "]", " ", "-", " ", "M", "y", " ", "S", "h", "o", "w", " ", "-", " ", "P", "a", "r", "t", " ", "2">>>> :> <<>>)
  @@ (<<"U_EMPTY", <<"2", "4", "0", "7", "0", "5", " ", "[", "S", "o", "m", "e", "G", "r", "o", "u", "p", "]", " ", "M", "y", " ", "S", "h", "o", "w", " ", "-", " ", "P", "a", "r", "t", " ", "2">>>> :> <<>>)
  @@ (<<"U_EMPTY", <<"L", "i", "v", "e", " ", "S", "t", "r", "e", "a", "m", " ", "[", "d", "Q", "w", "4", "w", "9", "W", "g", "X", "c", "Q", "]">>>> :> <<>>)
  @@ (<<"U_EMPTY", <<"S", "0", "1", "E", "0", "2", "-", "E", "0", "4", " ", "T", "r", "i", "o">>>> :> <<>>)
  @@ (<<"U_EMPTY", <<"S", "0", "1", "E", "0", "3", " ", "S", "i", "n", "g", "l", "e">>>> :> <<>>)
  @@ (<<"U_EMPTY", <<"S", "0", "1", "E", "0", "5", "-", "E", "0", "1", " ", "R", "e", "v", "e", "r", "s", "e", "d">>>> :> <<>>)
  @@ (<<"U_EMPTY", <<"S", "h", "o", "w", " ", "E", "P", "0", "1", "-", "E", "P", "0", "5", " ", "T", "i", "t", "l", "e">>>> :> <<>>)
  @@ (<<"U_EMPTY", <<"r", "a", "n", "d", "o", "m", " ", "f", "i", "l", "e">>>> :> <<>>)

\* pattern.search(stem).groupdict() of every multi-episode pattern.
MultiSearchTable ==
     (<<"M1", <<"2", "0", "2", "4", "-", "0", "7", "-", "0", "2", " ", "E", "0", "1", "-", "E", "0", "5", " ", "M", "a", "r", "a", "t", "h", "o", "n">>>> :> [end |-> PyStr(<<"0", "5">>), start |-> PyStr(<<"0", "1">>)])
  @@ (<<"M1", <<"S", "0", "1", "E", "0", "2", "-", "E", "0", "4", " ", "T", "r", "i", "o">>>> :> [end |-> PyStr(<<"0", "4">>), start |-> PyStr(<<"0", "2">>)])
  @@ (<<"M1", <<"S", "0", "1", "E", "0", "5", "-", "E", "0", "1", " ", "R", "e", "v", "e", "r", "s", "e", "d">>>> :> [end |-> PyStr(<<"0", "1">>), start |-> PyStr(<<"0", "5">>)])
  @@ (<<"M1", <<"S", "h", "o", "w", " ", "E", "P", "0", "1", "-", "E", "P", "0", "5", " ", "T", "i", "t", "l", "e">>>> :> [end |-> PyStr(<<"0", "5">>), start |-> PyStr(<<"0", "1">>)])

\* YT_RX.search(filename).groupdict().
YtRxTable ==
     (<<"2", "0", "2", "4", "0", "7", "0", "2", " ", "L", "i", "v", "e", " ", "S", "t", "r", "e", "a", "m", " ", "[", "d", "Q", "w", "4", "w", "9", "W", "g", "X", "c", "Q", "]", ".", "m", "k", "v">> :> [id |-> PyStr(<<"d", "Q", "w", "4", "w", "9", "W", "g", "X", "c", "Q">>)])
  @@ (<<"L", "i", "v", "e", " ", "S", "t", "r", "e", "a", "m", " ", "[", "d", "Q", "w", "4", "w", "9", "W", "g", "X", "c", "Q", "]", ".", "m", "k", "v">> :> [id |-> PyStr(<<"d", "Q", "w", "4", "w", "9", "W", "g", "X", "c", "Q">>)])

\* YT_FILE_RX.match(stem).groupdict().
YtFileRxTable ==
     (<<"2", "0", "2", "4", "-", "0", "7", "-", "0", "2", " ", "E", "0", "1", "-", "E", "0", "5", " ", "M", "a", "r", "a", "t", "h", "o", "n">> :> [day |-> PyStr(<<"0", "2">>), month |-> PyStr(<<"0", "7">>), title |-> PyStr(<<"E", "0", "1", "-", "E", "0", "5", " ", "M", "a", "r", "a", "t", "h", "o", "n">>), year |-> PyStr(<<"2", "0", "2", "4">>)])
  @@ (<<"2", "0", "2", "4", "-", "0", "7", "-", "0", "2", " ", "E", "v", "e", "n", "i", "n", "g", " ", "S", "h", "o", "w">> :> [day |-> PyStr(<<"0", "2">>), month |-> PyStr(<<"0", "7">>), title |-> PyStr(<<"E", "v", "e", "n", "i", "n", "g", " ", "S", "h", "o", "w">>), year |-> PyStr(<<"2", "0", "2", "4">>)])
  @@ (<<"2", "0", "2", "4", "0", "7", "0", "2", " ", "A", "n", "i", "m", "e">> :> [day |-> PyStr(<<"0", "2">>), month |-> PyStr(<<"0", "7">>), title |-> PyStr(<<"A", "n", "i", "m", "e">>), year |-> PyStr(<<"2", "0", "2", "4">>)])
  @@ (<<"2", "0", "2", "4", "0", "7", "0", "2", " ", "L", "i", "v", "e", " ", "S", "t", "r", "e", "a", "m", " ", "[", "d", "Q", "w", "4", "w", "9", "W", "g", "X", "c", "Q", "]">> :> [day |-> PyStr(<<"0", "2">>), month |-> PyStr(<<"0", "7">>), title |-> PyStr(<<"L", "i", "v", "e", " ", "S", "t", "r", "e", "a", "m", " ", "[", "d", "Q", "w", "4", "w", "9", "W", "g", "X", "c", "Q", "]">>), year |-> PyStr(<<"2", "0", "2", "4">>)])
  @@ (<<"2", "0", "2", "4", "0", "7", "0", "2", " ", "W", "e", "a", "t", "h", "e", "r">> :> [day |-> PyStr(<<"0", "2">>), month |-> PyStr(<<"0", "7">>), title |-> PyStr(<<"W", "e", "a", "t", "h", "e", "r">>), year |-> PyStr(<<"2", "0", "2", "4">>)])

\* YT_FILE_DATE.search(stem).groupdict().
YtFileDateTable ==
     (<<"1", "2", "3", "0", "7", "0", "2", " ", "O", "l", "d", " ", "T", "a", "p", "e">> :> [day |-> PyStr(<<"0", "2">>), month |-> PyStr(<<"0", "7">>), year |-> PyStr(<<"1", "2", "3">>)])
  @@ (<<"2", "0", "2", "4", "-", "0", "7", "-", "0", "2", " ", "E", "0", "1", "-", "E", "0", "5", " ", "M", "a", "r", "a", "t", "h", "o", "n">> :> [day |-> PyStr(<<"0", "2">>), month |-> PyStr(<<"0", "7">>), year |-> PyStr(<<"2", "0", "2", "4">>)])
  @@ (<<"2", "0", "2", "4", "-", "0", "7", "-", "0", "2", " ", "E", "v", "e", "n", "i", "n", "g", " ", "S", "h", "o", "w">> :> [day |-> PyStr(<<"0", "2">>), month |-> PyStr(<<"0", "7">>), year |-> PyStr(<<"2", "0", "2", "4">>)])
  @@ (<<"2", "0", "2", "4", "0", "7", "0", "2", " ", "A", "n", "i", "m", "e">> :> [day |-> PyStr(<<"0", "2">>), month |-> PyStr(<<"0", "7">>), year |-> PyStr(<<"2", "0", "2", "4">>)])
  @@ (<<"2", "0", "2", "4", "0", "7", "0", "2", " ", "L", "i", "v", "e", " ", "S", "t", "r", "e", "a", "m", " ", "[", "d", "Q", "w", "4", "w", "9", "W", "g", "X", "c", "Q", "]">> :> [day |-> PyStr(<<"0", "2">>), month |-> PyStr(<<"0", "7">>), year |-> PyStr(<<"2", "0", "2", "4">>)])
  @@ (<<"2", "0", "2", "4", "0", "7", "0", "2", " ", "W", "e", "a", "t", "h", "e", "r">> :> [day |-> PyStr(<<"0", "2">>), month |-> PyStr(<<"0", "7">>), year |-> PyStr(<<"2", "0", "2", "4">>)])
  @@ (<<"2", "4", "0", "7", "0", "2", " ", "M", "O", "R", "N", "I", "N", "G", " ", "N", "E", "W", "S">> :> [day |-> PyStr(<<"0", "2">>), month |-> PyStr(<<"0", "7">>), year |-> PyStr(<<"2", "4">>)])
  @@ (<<"2", "4", "0", "7", "0", "2", " ", "M", "o", "r", "n", "i", "n", "g", " ", "N", "e", "w", "s">> :> [day |-> PyStr(<<"0", "2">>), month |-> PyStr(<<"0", "7">>), year |-> PyStr(<<"2", "4">>)])
  @@ (<<"2", "4", "0", "7", "0", "5", " ", "[", "G", "r", "o", "u", "p", "]", " ", "-", " ", "M", "y", " ", "S", "h", "o", "w", " ", "-", " ", "P", "a", "r", "t", " ", "2">> :> [day |-> PyStr(<<"0", "5">>), month |-> PyStr(<<"0", "7">>), year |-> PyStr(<<"2", "4">>)])
  @@ (<<"2", "4", "0", "7", "0", "5", " ", "[", "S", "o", "m", "e", "G", "r", "o", "u", "p", "]", " ", "M", "y", " ", "S", "h", "o", "w", " ", "-", " ", "P", "a", "r", "t", " ", "2">> :> [day |-> PyStr(<<"0", "5">>), month |-> PyStr(<<"0", "7">>), year |-> PyStr(<<"2", "4">>)])

\* YT_JSON_DATE_RX.match(text).groupdict().
YtJsonDateTable ==
     (<<"2", "0", "2", "4", "0", "7", "0", "1">> :> [day |-> PyStr(<<"0", "1">>), month |-> PyStr(<<"0", "7">>), year |-> PyStr(<<"2", "0", "2", "4">>)])
  @@ (<<"2", "0", "2", "4", "0", "7", "0", "3">> :> [day |-> PyStr(<<"0", "3">>), month |-> PyStr(<<"0", "7">>), year |-> PyStr(<<"2", "0", "2", "4">>)])

\* time.strftime("%Y%m%d", time.gmtime(float(epoch))).
GmtimeTable ==
     (<<"1", "7", "1", "9", "9", "6", "4", "8", "0", "0">> :> <<"2", "0", "2", "4", "0", "7", "0", "3">>)

\* hashlib.sha256(text).hexdigest() of every lower-cased stem.
Sha256Table ==
     (<<"1", "2", "3", "0", "7", "0", "2", " ", "o", "l", "d", " ", "t", "a", "p", "e">> :> <<"f", "1", "2", "d", "8", "1", "5", "c", "c", "2", "8", "9", "3", "4", "4", "4", "3", "4", "f", "3", "2", "4", "5", "6", "6", "e", "b", "8", "1", "3", "f", "5", "b", "4", "8", "9", "8", "d", "e", "b", "7", "b", "1", "0", "f", "2", "e", "c", "4", "0", "2", "7", "d", "f", "d", "4", "1", "2", "b", "8", "a", "a", "e", "d">>)
  @@ (<<"2", "0", "2", "4", "-", "0", "7", "-", "0", "2", " ", "e", "0", "1", "-", "e", "0", "5", " ", "m", "a", "r", "a", "t", "h", "o", "n">> :> <<"3", "b", "4", "5", "0", "b", "d", "e", "4", "6", "1", "1", "e", "9", "0", "8", "2", "3", "5", "8", "c", "6", "a", "e", "9", "8", "8", "b", "7", "8", "9", "9", "9", "2", "3", "c", "3", "d", "7", "4", "a", "0", "d", "b", "2", "9", "0", "a", "e", "8", "a", "1", "b", "0", "8", "9", "c", "e", "6", "b", "8", "2", "f", "5">>)
  @@ (<<"2", "0", "2", "4", "-", "0", "7", "-", "0", "2", " ", "e", "v", "e", "n", "i", "n", "g", " ", "s", "h", "o", "w">> :> <<"4", "8", "4", "7", "3", "a", "5", "f", "b", "9", "7", "3", "3", "9", "a", "d", "4", "3", "0", "1", "8", "7", "8", "6", "6", "3", "d", "5", "a", "6", "0", "f", "a", "d", "8", "b", "5", "a", "c", "0", "8", "9", "8", "3", "5", "d", "4", "2", "7", "7", "6", "3", "e", "b", "c", "1", "5", "d", "1", "5", "6", "4", "e", "6">>)
  @@ (<<"2", "0", "2", "4", "0", "7", "0", "2", " ", "a", "n", "i", "m", "e">> :> <<"8", "f", "5", "d", "f", "6", "0", "d", "8", "a", "9", "2", "e", "2", "0", "6", "7", "5", "f", "4", "f", "1", "5", "e", "9", "e", "b", "f", "c", "e", "c", "4", "3", "1", "0", "f", "2", "d", "7", "7", "a", "4", "8", "6", "7", "4", "b", "4", "7", "1", "4", "c", "3", "a", "8", "2", "0", "4", "0", "4", "9", "b", "3", "4">>)
  @@ (<<"2", "0", "2", "4", "0", "7", "0", "2", " ", "l", "i", "v", "e", " ", "s", "t", "r", "e", "a", "m", " ", "[", "d", "q", "w", "4", "w", "9", "w", "g", "x", "c", "q", "]">> :> <<"9", "8", "2", "2", "8", "0", "6", "5", "1", "7", "7", "e", "f", "9", "6", "b", "1", "6", "f", "0", "7", "f", "3", "2", "e", "2", "e", "4", "9", "7", "d", "d", "7", "6", "e", "4", "8", "d", "1", "9", "9", "8", "2", "b", "d", "4", "d", "0", "3", "b", "b", "7", "2", "d", "6", "6", "9", "5", "1", "b", "f", "e", "3", "2">>)
  @@ (<<"2", "0", "2", "4", "0", "7", "0", "2", " ", "w", "e", "a", "t", "h", "e", "r">> :> <<"8", "f", "7", "4", "f", "1", "b", "6", "4", "f", "0", "a", "6", "c", "c", "c", "b", "d", "3", "5", "3", "1", "5", "4", "f", "d", "8", "5", "4", "a", "5", "3", "5", "e", "d", "0", "e", "6", "e", "8", "a", "3", "f", "7", "e", "6", "4", "a", "4", "2", "a", "4", "4", "9", "f", "c", "6", "7", "9", "1", "5", "b", "b", "9">>)
  @@ (<<"2", "4", "0", "7", "0", "2", " ", "m", "o", "r", "n", "i", "n", "g", " ", "n", "e", "w", "s">> :> <<"2", "6", "3", "4", "8", "a", "0", "a", "a", "a", "2", "e", "d", "0", "b", "c", "0", "1", "5", "b", "0", "f", "8", "c", "1", "6", "4", "b", "5", "c", "c", "c", "a", "1", "3", "d", "3", "6", "c", "b", "2", "c", "5", "d", "1", "f", "b", "2", "7", "5", "e", "a", "c", "8", "3", "a", "9", "b", "7", "3", "8", "c", "7", "a">>)
  @@ (<<"2", "4", "0", "7", "0", "5", " ", "[", "g", "r", "o", "u", "p", "]", " ", "-", " ", "m", "y", " ", "s", "h", "o", "w", " ", "-", " ", "p", "a", "r", "t", " ", "2">> :> <<"a", "0", "0", "d", "f", "1", "8", "7", "5", "4", "9", "1", "b", "5", "c", "0", "3", "a", "3", "b", "0", "3", "3", "7", "9", "e", "a", "a", "9", "c", "4", "e", "8", "b", "2", "f", "d", "8", "d", "2", "7", "1", "9", "c", "7", "3", "8", "0", "1", "d", "a", "b", "c", "e", "8", "f", "2", "d", "6", "1", "0", "8", "c", "6">>)
  @@ (<<"2", "4", "0", "7", "0", "5", " ", "[", "s", "o", "m", "e", "g", "r", "o", "u", "p", "]", " ", "m", "y", " ", "s", "h", "o", "w", " ", "-", " ", "p", "a", "r", "t", " ", "2">> :> <<"c", "e", "e", "6", "1", "a", "b", "6", "e", "4", "d", "2", "e", "9", "6", "3", "e", "4", "e", "3", "3", "6", "8", "6", "c", "7", "c", "0", "b", "5", "d", "1", "6", "0", "4", "5", "f", "5", "f", "d", "4", "6", "1", "3", "2", "d", "2", "1", "7", "f", "8", "6", "7", "b", "0", "1", "f", "1", "0", "1", "9", "d", "1", "c">>)
  @@ (<<"l", "i", "v", "e", " ", "s", "t", "r", "e", "a", "m", " ", "[", "d", "q", "w", "4", "w", "9", "w", "g", "x", "c", "q", "]">> :> <<"b", "7", "b", "f", "6", "6", "e", "3", "b", "e", "2", "4", "c", "6", "4", "1", "5", "f", "2", "d", "9", "2", "5", "b", "e", "8", "c", "5", "3", "2", "2", "0", "a", "d", "c", "0", "c", "d", "7", "3", "5", "d", "e", "5", "2", "a", "1", "5", "4", "d", "6", "b", "2", "b", "0", "f", "b", "5", "3", "9", "7", "1", "9", "c">>)
  @@ (<<"r", "a", "n", "d", "o", "m", " ", "f", "i", "l", "e">> :> <<"3", "3", "b", "c", "0", "4", "b", "f", "3", "9", "2", "3", "e", "b", "4", "e", "3", "b", "3", "9", "7", "9", "2", "8", "7", "f", "8", "7", "1", "0", "4", "3", "9", "3", "3", "d", "1", "9", "5", "5", "0", "4", "0", "e", "e", "3", "c", "d", "f", "a", "6", "5", "6", "9", "0", "f", "5", "e", "2", "8", "4", "6", "b", "b">>)
  @@ (<<"s", "0", "1", "e", "0", "2", "-", "e", "0", "4", " ", "t", "r", "i", "o">> :> <<"d", "2", "d", "9", "9", "3", "0", "a", "4", "8", "0", "2", "8", "6", "2", "4", "f", "b", "d", "e", "0", "5", "1", "5", "a", "6", "1", "3", "2", "6", "d", "c", "1", "e", "8", "5", "3", "a", "4", "0", "0", "a", "8", "f", "c", "f", "e", "0", "e", "8", "f", "0", "7", "5", "4", "a", "5", "9", "9", "0", "2", "0", "0", "4">>)
  @@ (<<"s", "0", "1", "e", "0", "3", " ", "s", "i", "n", "g", "l", "e">> :> <<"9", "0", "7", "1", "9", "1", "b", "8", "9", "a", "b", "e", "d", "f", "5", "3", "1", "8", "1", "d", "9", "6", "d", "9", "1", "e", "c", "b", "d", "2", "2", "4", "7", "8", "1", "0", "b", "e", "4", "c", "2", "d", "8", "5", "e", "9", "e", "2", "9", "0", "5", "4", "a", "b", "f", "e", "8", "b", "7", "6", "0", "7", "7", "b">>)
  @@ (<<"s", "0", "1", "e", "0", "5", "-", "e", "0", "1", " ", "r", "e", "v", "e", "r", "s", "e", "d">> :> <<"8", "1", "5", "2", "5", "6", "4", "d", "d", "7", "2", "6", "5", "e", "9", "f", "d", "d", "0", "2", "4", "7", "b", "d", "e", "3", "f", "a", "3", "5", "2", "d", "9", "d", "5", "6", "c", "8", "4", "7", "c", "5", "8", "7", "9", "f", "0", "d", "a", "d", "7", "3", "1", "9", "1", "d", "2", "9", "d", "1", "8", "2", "4", "9">>)
  @@ (<<"s", "h", "o", "w", " ", "e", "p", "0", "1", "-", "e", "p", "0", "5", " ", "t", "i", "t", "l", "e">> :> <<"e", "c", "5", "4", "9", "6", "6", "b", "4", "4", "9", "5", "6", "b", "e", "f", "d", "9", "0", "2", "4", "5", "e", "c", "a", "c", "9", "7", "1", "9", "d", "e", "0", "e", "9", "3", "f", "d", "3", "f", "c", "4", "e", "d", "a", "4", "6", "f", "f", "1", "6", "7", "0", "e", "c", "2", "5", "8", "c", "f", "c", "1", "c", "6">>)

\* unicode.lower() on the letters of the universe.
UpperToLower ==
     ("A" :> "a")
  @@ ("E" :> "e")
  @@ ("G" :> "g")
  @@ ("I" :> "i")
  @@ ("L" :> "l")
  @@ ("M" :> "m")
  @@ ("N" :> "n")
  @@ ("O" :> "o")
  @@ ("P" :> "p")
  @@ ("Q" :> "q")
  @@ ("R" :> "r")
  @@ ("S" :> "s")
  @@ ("T" :> "t")
  @@ ("W" :> "w")
  @@ ("X" :> "x")

\* ---- library tables: end ----

\* ------------------------------------------------------------------------
\* Text
\* ------------------------------------------------------------------------
Digits == <<"0", "1", "2", "3", "4", "5", "6", "7", "8", "9">>
DigitChars == {Digits[i] : i \in 1..10}
DigitVal(c) == (CHOOSE i \in 1..10 : Digits[i] = c) - 1

\* the value of x, handed to F as a value: x is evaluated once however often F uses it
Bind(x, F(_)) == CHOOSE r \in {F(v) : v \in {x}} : TRUE

\* str(n) of a non-negative integer
RECURSIVE NumDigits(_)
NumDigits(n) == IF n < 10 THEN 1 ELSE 1 + NumDigits(n \div 10)
IntToStr(n) == [i \in 1..NumDigits(n) |-> Digits[((n \div (10 ^ (NumDigits(n) - i))) % 10) + 1]]

IsDigits(s) == s # <<>> /\ \A i \in 1..Len(s) : s[i] \in DigitChars

\* int(s) of a decimal digit string
RECURSIVE StrToIntUpTo(_, _)
StrToIntUpTo(s, k) == IF k = 0 THEN 0 ELSE 10 * StrToIntUpTo(s, k - 1) + DigitVal(s[k])
StrToInt(s) == StrToIntUpTo(s, Len(s))

\* str(v)
PyStrOf(v) ==
  CASE v.t = "None" -> <<"N", "o", "n", "e">>
    [] v.t = "str" -> v.s
    [] v.t = "int" -> IntToStr(v.n)

\* int(v): the integer, or the exception int() raises
PyIntOf(v) ==
  CASE v.t = "None" -> [raised |-> TRUE, exc |-> "TypeError"]
    [] v.t = "int" -> [raised |-> FALSE, n |-> v.n]
    [] v.t = "str" -> IF IsDigits(v.s) THEN [raised |-> FALSE, n |-> StrToInt(v.s)]
                      ELSE [raised |-> TRUE, exc |-> "ValueError"]

\* "{:>0w}".format(text): right-aligned in a field of width w, filled with "0"
PadLeft(s, w) ==
  IF Len(s) >= w THEN s
  ELSE [i \in 1..w |-> IF i <= w - Len(s) THEN "0" ELSE s[i - (w - Len(s))]]

LowerChar(c) == IF c \in DOMAIN UpperToLower THEN UpperToLower[c] ELSE c
Lower(s) == [i \in 1..Len(s) |-> LowerChar(s[i])]

Whitespace == {" ", "\t", "\n", "\r"}

\* text.strip(chars)
LStrip(s, chars) ==
  IF \A i \in 1..Len(s) : s[i] \in chars THEN <<>>
  ELSE SubSeq(s, CHOOSE i \in 1..Len(s) : s[i] \notin chars /\ \A j \in 1..(i - 1) : s[j] \in chars, Len(s))
RStrip(s, chars) ==
  IF \A i \in 1..Len(s) : s[i] \in chars THEN <<>>
  ELSE SubSeq(s, 1, CHOOSE i \in 1..Len(s) : s[i] \notin chars /\ \A j \in (i + 1)..Len(s) : s[j] \in chars)
Strip(s, chars) == Bind(LStrip(s, chars), LAMBDA v : RStrip(v, chars))

\* text.replace(c, '')
RemoveChar(s, c) == SelectSeq(s, LAMBDA x : x # c)

\* needle in text
Contains(s, needle) ==
  \E i \in 1..(Len(s) - Len(needle) + 1) : SubSeq(s, i, i + Len(needle) - 1) = needle

\* os.path.splitext(name): the name up to its last dot, when a character that is
\* not a dot comes before that dot
LastDot(s) == IF \E i \in 1..Len(s) : s[i] = "." THEN CHOOSE i \in 1..Len(s) : s[i] = "." /\ \A j \in (i + 1)..Len(s) : s[j] # "." ELSE 0
HasExt(s) == LastDot(s) > 1 /\ \E j \in 1..(LastDot(s) - 1) : s[j] # "."
SplitExtRoot(s) == IF HasExt(s) THEN SubSeq(s, 1, LastDot(s) - 1) ELSE s

\* re.match / re.search on the universe: the groupdict, or PyNone without a match
Lookup(table, key) == IF key \in DOMAIN table THEN [t |-> "match", groups |-> table[key]] ELSE PyNone


\* ------------------------------------------------------------------------
\* Constants of the scanner
\* ------------------------------------------------------------------------
YOUTUBE_ID_LENGTH == 11
DEFAULT_EPISODE_PREFIX == <<"1">>
HASH_ID_LENGTH == 4

\* MULTI_EPISODE_PATTERNS and DEFAULT_PARSING_PATTERNS, by name, in listed order
MULTI_EPISODE_PATTERNS == <<"M1">>
DEFAULT_PARSING_PATTERNS == <<"D1", "D2", "D3", "D4", "D5", "D6", "D7", "D8", "D9">>

\* ------------------------------------------------------------------------
\* Date/ID normalizer
\* ------------------------------------------------------------------------
\* ord(c) of a hexadecimal digit
HexOrd(c) == IF c \in DigitChars THEN 48 + DigitVal(c) ELSE 97 + ((CHOOSE i \in 1..6 : <<"a", "b", "c", "d", "e", "f">>[i] = c) - 1)

\* ''.join([str(ord(c)) for c in hash_hex])
RECURSIVE JoinOrdsFrom(_, _)
JoinOrdsFrom(hex, i) == IF i > Len(hex) THEN <<>> ELSE IntToStr(HexOrd(hex[i])) \o JoinOrdsFrom(hex, i + 1)
JoinOrds(hex) == JoinOrdsFrom(hex, 1)

\* text.ljust(w, '9')
PadRightNine(s, w) == IF Len(s) >= w THEN s ELSE [i \in 1..w |-> IF i <= Len(s) THEN s[i] ELSE "9"]

\* text[:n]
Take(s, n) == SubSeq(s, 1, IF Len(s) < n THEN Len(s) ELSE n)

\* An identifier taken from the modification time of the file, as the minutes and
\* seconds of scanner releases before the hash were.
unique_id_from_mtime(file) == 1000 + (file.mtime % 9000)

\* An identifier that keeps one character more than HASH_ID_LENGTH of the joined codes.
unique_id_untruncated(file) ==
  StrToInt(Take(JoinOrds(Sha256Table[Lower(SplitExtRoot(Chars[file.path]))]), HASH_ID_LENGTH + 1))

\* create_unique_episode_id(file_path): the file is given as it is on disk; its name
\* is all that is read
create_unique_episode_id(file) ==
  LET basename == Lower(SplitExtRoot(Chars[file.path]))
      hash_hex == Sha256Table[basename]
  IN  Bind(JoinOrds(hash_hex), LAMBDA ascii_values :
        Bind(Take(ascii_values, HASH_ID_LENGTH), LAMBDA truncated :
          StrToInt(PadRightNine(truncated, HASH_ID_LENGTH))))

\* A normalizer that leaves a two-digit year as it was captured.
year_as_captured(year_str) == year_str

\* normalize_year(year_str)
normalize_year(year_str) ==
  IF Truthy(year_str) /\ Len(PyStrOf(year_str)) = 2 THEN PyStr(<<"2", "0">> \o year_str.s)
  ELSE year_str

\* format_date_string(year, month, day)
format_date_string(year, month, day) ==
  IF Truthy(year) /\ Truthy(month) /\ Truthy(day)
  THEN PyStr(PyStrOf(year) \o <<"-">> \o PyStrOf(month) \o <<"-">> \o PyStrOf(day))
  ELSE PyNone

\* re.sub(re.escape(show_name), '', title, flags=re.IGNORECASE)
RECURSIVE RemoveAllFrom(_, _, _)
RemoveAllFrom(s, needle, i) ==
  IF i > Len(s) THEN <<>>
  ELSE IF i + Len(needle) - 1 <= Len(s) /\ Lower(SubSeq(s, i, i + Len(needle) - 1)) = Lower(needle)
       THEN RemoveAllFrom(s, needle, i + Len(needle))
       ELSE <<s[i]>> \o RemoveAllFrom(s, needle, i + 1)
RemoveAllIgnoreCase(s, needle) == RemoveAllFrom(s, needle, 1)

\* re.sub(r'\[.+?\]', ' ', title): a "[", one character or more, up to the first "]"
\* that follows them
\* the position of the "]" that closes a match of \[.+?\] starting at i, or 0
BracketEnd(s, i) ==
  IF s[i] = "[" /\ \E j \in (i + 2)..Len(s) : s[j] = "]" /\ \A k \in (i + 1)..(j - 1) : s[k] # "\n"
  THEN CHOOSE j \in (i + 2)..Len(s) : s[j] = "]" /\ \A k \in (i + 2)..(j - 1) : s[k] # "]"
  ELSE 0
RECURSIVE SubBracketsFrom(_, _)
SubBracketsFrom(s, i) ==
  IF i > Len(s) THEN <<>>
  ELSE IF BracketEnd(s, i) # 0 THEN <<" ">> \o SubBracketsFrom(s, BracketEnd(s, i) + 1)
       ELSE <<s[i]>> \o SubBracketsFrom(s, i + 1)
SubBrackets(s) == SubBracketsFrom(s, 1)

\* clean_title(title, show_name)
clean_title(title, show_name) ==
  IF ~Truthy(title) THEN title
  ELSE Bind(IF Truthy(show_name) /\ Contains(Lower(title.s), Lower(show_name.s))
            THEN RemoveAllIgnoreCase(title.s, show_name.s)
            ELSE title.s, LAMBDA t1 :
         Bind(SubBrackets(t1), LAMBDA t2 :
           Bind(Strip(t2, Whitespace), LAMBDA t3 :
             Bind(Strip(t3, {"-"}), LAMBDA t4 : PyStr(Strip(t4, Whitespace))))))


\* ------------------------------------------------------------------------
\* Log records (the WARNING and ERROR lines of log_message; INFO and DEBUG
\* lines are left out)
\* ------------------------------------------------------------------------
LogLine(level, msg, about) == [level |-> level, msg |-> msg, about |-> about]

\* ------------------------------------------------------------------------
\* Sidecar readers
\* ------------------------------------------------------------------------
\* A file of the list is given with what is on disk when it is resolved:
\*   path   the file name
\*   mtime  its modification time
\*   nfo    <stem>.nfo:  [exists], and when it exists [parses] and, when it is
\*          well-formed, [fields]: the text of the elements of <episodedetails>
\*   json   <stem>.info.json: [exists], and when it exists [loads] and [data]
NfoAbsent == [exists |-> FALSE]
NfoMalformed == [exists |-> TRUE, parses |-> FALSE]
Nfo(fields) == [exists |-> TRUE, parses |-> TRUE, fields |-> fields]
JsonAbsent == [exists |-> FALSE]
JsonUnreadable == [exists |-> TRUE, loads |-> FALSE]
Json(data) == [exists |-> TRUE, loads |-> TRUE, data |-> data]

\* with open(json_path) as f: nfo_text = f.read()
\* json_path is bound neither in extract_nfo_metadata nor in the module: evaluating
\* it raises NameError before any file is opened.
ReadNfoText(file) == [raised |-> TRUE, exc |-> "NameError"]

\* XML.ElementFromString(nfo_text).xpath("//episodedetails")[0]
\* XML is not imported by the module: evaluating it raises NameError.
ParseNfoXml(file) == [raised |-> TRUE, exc |-> "NameError"]

\* the xml_field_map loop: the stripped text of each recognised element that has any
NfoFieldMap(fields) ==
  LET key(f) == IF f = "plot" THEN "summary" ELSE f
      kept == {f \in DOMAIN fields \cap {"title", "season", "episode", "aired", "year", "plot"} : Strip(fields[f].s, Whitespace) # <<>>}
  IN  [k \in {key(f) : f \in kept} |-> LET f == CHOOSE f \in kept : key(f) = k IN PyStr(Strip(fields[f].s, Whitespace))]

\* extract_nfo_metadata(file_path): [metadata, logs]
extract_nfo_metadata(file) ==
  IF ~file.nfo.exists THEN [metadata |-> EmptyDict, logs |-> <<>>]
  ELSE IF ReadNfoText(file).raised
       THEN [metadata |-> EmptyDict, logs |-> <<LogLine("ERROR", "Error loading NFO file", file.path)>>]
       ELSE IF ParseNfoXml(file).raised
            THEN [metadata |-> EmptyDict, logs |-> <<LogLine("ERROR", "Cannot parse XML", file.path)>>]
            ELSE [metadata |-> NfoFieldMap(file.nfo.fields), logs |-> <<>>]

\* ------------------------------------------------------------------------
\* Match resolver
\* ------------------------------------------------------------------------
NfoOverrideFields == <<"season", "episode", "title", "year">>

\* The override loop of process_regex_match: for each field the sidecar supplies,
\* nfo_override = True and locals()[field] = value.  locals() returns a dictionary
\* that is a snapshot of the function's variables: the assignment changes the
\* snapshot and season, episode, title and year keep their values.
OverrideWithNfo(locals, nfo_metadata) ==
  LET supplied == {i \in 1..Len(NfoOverrideFields) : Truthy(Get(nfo_metadata, NfoOverrideFields[i]))}
      coerced == {i \in supplied : NfoOverrideFields[i] \in {"season", "episode", "year"}}
  IN  IF \E i \in coerced : PyIntOf(nfo_metadata[NfoOverrideFields[i]]).raised
      THEN [raised |-> TRUE, exc |-> "ValueError"]
      ELSE [raised |-> FALSE, nfo_override |-> supplied # {}, locals |-> locals]

\* A resolver without the season default.
NoSeasonDefault(season, year) == season

\* A resolver whose season default ignores the year.
DefaultSeasonAlwaysOne(season, year) == IF ~Truthy(season) THEN PyInt(1) ELSE season

\* season default
DefaultSeason(season, year) ==
  IF ~Truthy(season)
  THEN (IF Truthy(year) THEN PyStr(PadLeft(PyStrOf(year), 4)) ELSE PyInt(1))
  ELSE season

\* the title after clean-up, fallback and decoration
DecorateTitle(title, ep_number, release_date) ==
  IF ~Truthy(title) THEN title
  ELSE IF Truthy(ep_number)
       THEN PyStr(Strip(ep_number.s \o <<" ", "-", " ">> \o title.s, Whitespace))
       ELSE IF Truthy(release_date) /\ ~PyEq(release_date, title)
            THEN Bind(RemoveChar(release_date.s, "-"), LAMBDA undashed :
                   PyStr(Strip(SubSeq(undashed, 3, Len(undashed)) \o <<" ", "~", " ">> \o title.s, Whitespace)))
            ELSE PyStr(Strip(title.s, Whitespace))
ResolveTitle(groups, show_name, release_date) ==
  Bind(clean_title(Get(groups, "title"), show_name), LAMBDA cleaned :
    DecorateTitle(IF ~Truthy(cleaned) \/ PyEq(cleaned, Get(groups, "series")) THEN release_date ELSE cleaned,
                  Get(groups, "epNumber"), release_date))

\* the required-fields check
RejectsMatch(season, episode) == IsNone(season) /\ IsNone(episode)

\* the widening condition
WidensEpisode(file, release_date, episode, nfo_override) ==
  Truthy(release_date) /\ Len(PyStrOf(episode)) < 8 /\ ~nfo_override

\* int('{}{:>04}'.format(episode, unique_id))
WidenEpisode(episode, unique_id) == PyIntOf(PyStr(PyStrOf(episode) \o PadLeft(IntToStr(unique_id), 4)))

\* A resolver that synthesizes the episode number of every dated match from the day
\* alone, whether or not an episode number was captured.
EpisodeFromDay(groups, year) ==
  IF Truthy(year) /\ Truthy(Get(groups, "month")) /\ Truthy(Get(groups, "day"))
  THEN [raised |-> FALSE, value |-> PyInt(StrToInt(DEFAULT_EPISODE_PREFIX \o groups.day.s))]
  ELSE [raised |-> FALSE, value |-> Get(groups, "episode")]

\* the episode number before the override: the captured one, or the one synthesized
\* from the date: [raised, value]
EpisodeOfMatch(groups, year) ==
  IF ~Truthy(Get(groups, "episode")) /\ Truthy(year) /\ Truthy(Get(groups, "month")) /\ Truthy(Get(groups, "day"))
  THEN Bind(PyIntOf(PyStr(DEFAULT_EPISODE_PREFIX \o groups.month.s \o groups.day.s)), LAMBDA n :
         IF n.raised THEN n ELSE [raised |-> FALSE, value |-> PyInt(n.n)])
  ELSE [raised |-> FALSE, value |-> Get(groups, "episode")]

\* the record process_regex_match returns from its variables after the override
FinishMatch(locals, nfo_override, month, day, release_date, file, logs) ==
  IF RejectsMatch(locals.season, locals.episode) THEN [kind |-> "none", logs |-> logs]
  ELSE Bind(IF WidensEpisode(file, release_date, locals.episode, nfo_override)
            THEN Bind(create_unique_episode_id(file), LAMBDA unique_id : WidenEpisode(locals.episode, unique_id))
            ELSE [raised |-> FALSE, n |-> -1], LAMBDA widened :
         IF widened.raised THEN [kind |-> "raise", exc |-> widened.exc, logs |-> logs]
         ELSE [kind |-> "record", logs |-> logs,
               data |-> [season |-> locals.season,
                         episode |-> IF widened.n = -1 THEN locals.episode ELSE PyInt(widened.n),
                         title |-> locals.title, year |-> locals.year,
                         month |-> month, day |-> day, released_date |-> release_date]])

\* process_regex_match(match, show_name, file_path) for a match:
\*   [kind |-> "record", data, logs], [kind |-> "none", logs] (None is returned)
\*   or [kind |-> "raise", exc, logs]
process_regex_match(groups, show_name, file) ==
  Bind(extract_nfo_metadata(file), LAMBDA nfo :
  Bind(normalize_year(Get(groups, "year")), LAMBDA year :
  Bind(format_date_string(year, Get(groups, "month"), Get(groups, "day")), LAMBDA release_date :
  Bind(EpisodeOfMatch(groups, year), LAMBDA episode :
    IF episode.raised THEN [kind |-> "raise", exc |-> episode.exc, logs |-> nfo.logs]
    ELSE
    Bind(OverrideWithNfo([season |-> DefaultSeason(Get(groups, "season"), year),
                          episode |-> episode.value,
                          title |-> ResolveTitle(groups, show_name, release_date),
                          year |-> year], nfo.metadata), LAMBDA over :
      IF over.raised THEN [kind |-> "raise", exc |-> over.exc, logs |-> nfo.logs]
      ELSE FinishMatch(over.locals, over.nfo_override, Get(groups, "month"), Get(groups, "day"),
                       release_date, file, nfo.logs))))))

\* ------------------------------------------------------------------------
\* Web-video path
\* ------------------------------------------------------------------------
\* the record both web-video resolvers build from a date match and a title
YoutubeRecord(date_groups, raw_title, file) ==
  LET month == Get(date_groups, "month")
      day == Get(date_groups, "day")
  IN  Bind(normalize_year(Get(date_groups, "year")), LAMBDA year :
      Bind(create_unique_episode_id(file), LAMBDA unique_id :
        [season |-> IF Truthy(year) THEN PyStr(PadLeft(PyStrOf(year), 4)) ELSE PyInt(1),
         episode |-> PyInt(StrToInt(DEFAULT_EPISODE_PREFIX \o PadLeft(month.s, 2) \o PadLeft(day.s, 2) \o PadLeft(IntToStr(unique_id), 4))),
         title |-> clean_title(raw_title, PyNone),
         year |-> year, month |-> month, day |-> day,
         released_date |-> format_date_string(year, month, day)]))

\* the date source of process_youtube_json_metadata: upload_date, elif epoch, else
\* the file name
YoutubeJsonDateMatch(data, filename) ==
  IF Truthy(Get(data, "upload_date")) THEN Lookup(YtJsonDateTable, data["upload_date"].s)
  ELSE IF Truthy(Get(data, "epoch")) THEN Lookup(YtJsonDateTable, GmtimeTable[data["epoch"].s])
  ELSE Lookup(YtFileDateTable, filename)

\* process_youtube_json_metadata(json_path, file_path, filename): [found, data, logs],
\* found FALSE when None is returned
process_youtube_json_metadata(file, filename) ==
  IF ~file.json.loads
  THEN [found |-> FALSE, logs |-> <<LogLine("ERROR", "Error loading YouTube JSON", file.path)>>]
  ELSE LET date_match == YoutubeJsonDateMatch(file.json.data, filename)
       IN  IF IsNone(date_match)
           THEN [found |-> FALSE, logs |-> <<LogLine("ERROR", "Cannot extract date from YouTube file", file.path)>>]
           ELSE [found |-> TRUE, data |-> YoutubeRecord(date_match.groups, IF "title" \in DOMAIN file.json.data THEN file.json.data["title"] ELSE PyStr(<<>>), file),
                 logs |-> <<>>]

\* process_youtube_filename(filename, file_path)
process_youtube_filename(filename, file) ==
  LET match == Lookup(YtFileRxTable, filename)
  IN  IF IsNone(match)
      THEN [found |-> FALSE, logs |-> <<LogLine("ERROR", "Cannot parse YouTube filename", file.path)>>]
      ELSE [found |-> TRUE, data |-> YoutubeRecord(match.groups, Get(match.groups, "title"), file),
            logs |-> <<LogLine("WARNING", "No JSON metadata found", file.path)>>]

\* process_youtube_file(file_path, filename)
process_youtube_file(file, filename) ==
  IF file.json.exists THEN process_youtube_json_metadata(file, filename)
  ELSE process_youtube_filename(filename, file)

\* ------------------------------------------------------------------------
\* Media objects
\* ------------------------------------------------------------------------
\* Media.Episode(show, season, episode, title, year) with released_at, display_offset
\* and parts as the scanner sets them
Episode(show, season, episode, data, offset, file) ==
  [show |-> show, season |-> season, episode |-> episode, title |-> data.title, year |-> data.year,
   released_at |-> IF Truthy(data.released_date) THEN data.released_date ELSE PyNone,
   display_offset |-> offset, parts |-> <<file.path>>]

\* create_episode_media_object(show_name, episode_data, file_path): [raised, objs]
create_episode_media_object(show_name, data, file) ==
  Bind(PyIntOf(data.season), LAMBDA season :
  Bind(PyIntOf(data.episode), LAMBDA episode :
    IF season.raised THEN [raised |-> TRUE, exc |-> season.exc]
    ELSE IF episode.raised THEN [raised |-> TRUE, exc |-> episode.exc]
    ELSE [raised |-> FALSE, objs |-> <<Episode(show_name, season.n, episode.n, data, PyNone, file)>>]))

\* A display offset counted from the end of each episode instead of its start.
DisplayOffsetOfEnd(ep_num, start_ep, end_ep) == ((ep_num - start_ep + 1) * 100) \div (end_ep - start_ep + 1)

\* display offset of the episode ep_num of start_ep..end_ep (integer division)
DisplayOffset(ep_num, start_ep, end_ep) == ((ep_num - start_ep) * 100) \div (end_ep - start_ep + 1)

\* the objects of range(start_ep, end_ep + 1), in loop order
ExpandRange(start_ep, end_ep, season, show_name, data, file) ==
  [k \in 1..(IF end_ep >= start_ep THEN end_ep - start_ep + 1 ELSE 0) |->
     Episode(show_name, season, start_ep + k - 1, data, PyInt(DisplayOffset(start_ep + k - 1, start_ep, end_ep)), file)]

\* process_multi_episode_file(filename, episode_data, show_name, file_path) from the
\* pattern at position i of the multi-episode registry on: [raised, objs]
RECURSIVE MultiFrom(_, _, _, _, _, _)
MultiFrom(i, registry, filename, data, show_name, file) ==
  IF i > Len(registry) THEN [raised |-> FALSE, objs |-> <<>>]
  ELSE Bind(Lookup(MultiSearchTable, <<registry[i], filename>>), LAMBDA match :
         IF IsNone(match) THEN MultiFrom(i + 1, registry, filename, data, show_name, file)
         ELSE Bind(StrToInt(match.groups.start.s), LAMBDA start_ep :
              Bind(StrToInt(match.groups.end.s), LAMBDA end_ep :
              Bind(PyIntOf(data.season), LAMBDA season :
                IF end_ep >= start_ep /\ season.raised THEN [raised |-> TRUE, exc |-> season.exc]
                ELSE [raised |-> FALSE, objs |-> ExpandRange(start_ep, end_ep, IF season.raised THEN 0 ELSE season.n, show_name, data, file)]))))


\* ------------------------------------------------------------------------
\* Bounds and the universe of inputs
\* ------------------------------------------------------------------------
\* the longest file list handed to Scan
MaxFiles == 2
\* the longest jp_scanner.json array
MaxConfigLen == 3

File(path, mtime, nfo, json) == [path |-> path, mtime |-> mtime, nfo |-> nfo, json |-> json]

\* generic-path files, with the sidecars and modification times they are found with
GenericFiles ==
  {File("240702 Morning News.mkv", t, NfoAbsent, JsonAbsent) : t \in {100, 200}}
  \cup {File(p, 100, NfoAbsent, JsonAbsent) : p \in
         {"240702 MORNING NEWS.mkv", "20240702 Weather.mkv", "20240702 Anime.mkv",
          "Show EP01-EP05 Title.mkv",
          "S01E05-E01 Reversed.mkv", "S01E03 Single.mkv", "S01E02-E04 Trio.mkv", "random file.mkv",
          "2024-07-02 E01-E05 Marathon.mkv", "240705 [SomeGroup] My Show - Part 2.mkv",
          "240705 [Group] - My Show - Part 2.mkv", "1230702 Old Tape.mkv"}}
  \cup {File("2024-07-02 Evening Show.mkv", 100, n, JsonAbsent) : n \in
         {NfoAbsent, NfoMalformed,
          Nfo([episode |-> PyStr(<<"5">>)]),
          Nfo([season |-> PyStr(<<"3">>), title |-> PyStr(<<"N", "f", "o">>), year |-> PyStr(<<"2", "0", "2", "3">>)])}}

\* web-video files (a bracketed 11-character identifier in the name)
YoutubeFiles ==
  {File("20240702 Live Stream [dQw4w9WgXcQ].mkv", 100, NfoAbsent, j) : j \in
     {JsonAbsent, JsonUnreadable,
      Json([upload_date |-> PyStr(<<"2", "0", "2", "4", "0", "7", "0", "1">>), title |-> PyStr(<<"L", "i", "v", "e", " ", "[", "H", "D", "]">>)]),
      Json([epoch |-> PyStr(<<"1", "7", "1", "9", "9", "6", "4", "8", "0", "0">>)]),
      Json([title |-> PyStr(<<"L", "i", "v", "e">>)]),
      Json([upload_date |-> PyStr(<<"2", "0", "2", "4">>), epoch |-> PyStr(<<"1", "7", "1", "9", "9", "6", "4", "8", "0", "0">>)])}}
  \cup {File("Live Stream [dQw4w9WgXcQ].mkv", 100, NfoAbsent, Json([title |-> PyStr(<<"L", "i", "v", "e">>)]))}

Universe == GenericFiles \cup YoutubeFiles

RECURSIVE SeqsUpTo(_, _)
SeqsUpTo(S, n) == IF n = 0 THEN {<<>>} ELSE SeqsUpTo(S, n - 1) \cup {Append(q, x) : q \in SeqsUpTo(S, n - 1), x \in S}

\* the entries a jp_scanner.json array may hold:
\*   U_TITLE  ^(?P<title>[a-z ]+)
\*   U_EP     ^(?P<year>\d{4})-(?P<month>\d{2})-(?P<day>\d{2}) E(?P<episode>\d+)
\*   U_BAD    (            which re.compile rejects
\*   U_EMPTY  the empty string
ConfigEntries == {"U_TITLE", "U_EP", "U_BAD", "U_EMPTY"}
ConfigAbsent == [exists |-> FALSE]
ConfigUnreadable == [exists |-> TRUE, loads |-> FALSE]
Config(data) == [exists |-> TRUE, loads |-> TRUE, data |-> data]
AllConfigs == {ConfigAbsent, ConfigUnreadable} \cup {Config(d) : d \in SeqsUpTo(ConfigEntries, MaxConfigLen)}
\* the configurations scans are explored under
ScanConfigs == {ConfigAbsent, Config(<<"U_BAD", "U_EP", "U_TITLE">>)}

\* the directory handed to Scan: Utils.SplitPath and VideoFiles.CleanName of it
ShowPath == [valid |-> TRUE, show |-> PyStr(<<"M", "y", " ", "S", "h", "o", "w">>)]
BadPath == [valid |-> FALSE]

\* ------------------------------------------------------------------------
\* Pattern registry
\* ------------------------------------------------------------------------
\* bool(pattern) and re.compile(pattern) of a configuration entry
IsEmptyPattern(p) == p = "U_EMPTY"
Compiles(p) == p # "U_BAD"

\* load_custom_patterns(): [patterns, logs]
load_custom_patterns(cfg) ==
  IF ~cfg.exists THEN [patterns |-> <<>>, logs |-> <<>>]
  ELSE IF ~cfg.loads
       THEN [patterns |-> <<>>, logs |-> <<LogLine("ERROR", "Error loading custom patterns", "jp_scanner.json")>>]
       ELSE [patterns |-> SelectSeq(cfg.data, LAMBDA p : ~IsEmptyPattern(p)), logs |-> <<>>]

\* one compile loop of compile_regex_patterns: the patterns that compile, in order,
\* and an ERROR line for each one that does not
CompileAll(patterns, msg) ==
  [compiled |-> SelectSeq(patterns, Compiles),
   logs |-> [i \in 1..Len(SelectSeq(patterns, LAMBDA p : ~Compiles(p))) |->
               LogLine("ERROR", msg, SelectSeq(patterns, LAMBDA p : ~Compiles(p))[i])]]

\* A registry built with the built-in patterns ahead of the user's.
compile_defaults_first(cfg) ==
  LET multi == CompileAll(MULTI_EPISODE_PATTERNS, "Error compiling multi-episode pattern")
      loaded == load_custom_patterns(cfg)
      custom == CompileAll(loaded.patterns, "Error compiling custom pattern")
      default == CompileAll(DEFAULT_PARSING_PATTERNS, "Error compiling default pattern")
  IN  [multi |-> multi.compiled, main |-> default.compiled \o custom.compiled,
       logs |-> multi.logs \o loaded.logs \o custom.logs \o default.logs]

\* compile_regex_patterns(): [multi, main, logs]
compile_regex_patterns(cfg) ==
  LET multi == CompileAll(MULTI_EPISODE_PATTERNS, "Error compiling multi-episode pattern")
      loaded == load_custom_patterns(cfg)
      custom == CompileAll(loaded.patterns, "Error compiling custom pattern")
      default == CompileAll(DEFAULT_PARSING_PATTERNS, "Error compiling default pattern")
  IN  [multi |-> multi.compiled, main |-> custom.compiled \o default.compiled,
       logs |-> multi.logs \o loaded.logs \o custom.logs \o default.logs]

\* ------------------------------------------------------------------------
\* State
\* ------------------------------------------------------------------------
VARIABLES
  config,          \* jp_scanner.json as it is on disk when the module is imported
  main_patterns,   \* MAIN_PATTERNS_COMPILED
  multi_patterns,  \* MULTI_EPISODE_PATTERNS_COMPILED
  pc,              \* "import", "ready", "files" (the file loop), "cascade" (the pattern loop), "done"
  path,            \* Scan's path
  nfiles,          \* len(files) of Scan's files
  files,           \* Scan's files, as far as the file loop has read them: the caller fixes the
                   \* list, and each entry is drawn when the loop reaches it, which gives the
                   \* same behaviours as drawing the whole list when Scan is called
  media_list,      \* Scan's media_list
  idx,             \* position of the file loop
  pat,             \* position of the pattern loop of scan_single_file
  log,             \* the WARNING and ERROR lines written so far
  attempted,       \* history: the positions of the files handed to scan_single_file, in order
  consulted,       \* history: per attempted file, the patterns matched against its stem, in order
  resolved,        \* history: per file a resolver returned a record for, the record, and where
                   \* the objects made of it are in media_list (none if making them raised)
  escaped          \* an exception left Scan

vars == <<config, main_patterns, multi_patterns, pc, path, nfiles, files, media_list, idx, pat, log,
          attempted, consulted, resolved, escaped>>

scan_vars == <<path, nfiles, files, media_list, idx, pat, attempted, consulted, resolved, escaped>>

InitWith(configs) ==
  /\ config \in configs
  /\ main_patterns = <<>>
  /\ multi_patterns = <<>>
  /\ pc = "import"
  /\ path = BadPath
  /\ nfiles = 0
  /\ files = <<>>
  /\ media_list = <<>>
  /\ idx = 1
  /\ pat = 1
  /\ log = <<>>
  /\ attempted = <<>>
  /\ consulted = <<>>
  /\ resolved = <<>>
  /\ escaped = FALSE

Init == InitWith(ScanConfigs)
InitRegistry == InitWith(AllConfigs)

\* module import: MULTI_EPISODE_PATTERNS_COMPILED, MAIN_PATTERNS_COMPILED = compile_regex_patterns()
CompileRegexPatterns ==
  /\ pc = "import"
  /\ \E r \in {compile_regex_patterns(config)} :
         /\ main_patterns' = r.main
         /\ multi_patterns' = r.multi
         /\ log' = log \o r.logs
  /\ pc' = "ready"
  /\ UNCHANGED <<config, scan_vars>>

\* ------------------------------------------------------------------------
\* Scan
\* ------------------------------------------------------------------------
\* A scanner without the try of the file loop: the exception reaches the handler of
\* Scan and the scan is over.
FileErrorAborts(i) == [pc |-> "done", idx |-> i, msg |-> "Critical error scanning"]

\* The handlers of an exception raised while a file is resolved: the try of the file
\* loop of scan_implementation logs it and the loop goes on with the next file.
FileErrorContinuation(i) == [pc |-> "files", idx |-> i + 1, msg |-> "Error processing file"]

\* Scan(path, files, media_list, subdirs) up to the file loop of scan_implementation:
\* VideoFiles.Scan (which may raise), the path check and CleanName.
Scan ==
  /\ pc = "ready"
  /\ \E p \in {ShowPath, BadPath}, n \in 0..MaxFiles, video_files_raises \in BOOLEAN :
       /\ path' = p
       /\ nfiles' = n
       /\ files' = <<>>
       /\ media_list' = <<>>
       /\ idx' = 1
       /\ pat' = 1
       /\ attempted' = <<>>
       /\ consulted' = <<>>
       /\ resolved' = <<>>
       /\ escaped' = FALSE
       /\ IF video_files_raises
          THEN /\ log' = Append(log, LogLine("ERROR", "Critical error scanning", "path"))
               /\ pc' = "done"
          ELSE IF ~p.valid
               THEN /\ log' = Append(log, LogLine("ERROR", "Invalid path structure", "path"))
                    /\ pc' = "done"
               ELSE /\ log' = log
                    /\ pc' = "files"
  /\ UNCHANGED <<config, main_patterns, multi_patterns>>

\* A scanner without the web-video branch: every file enters the pattern loop.
NeverYoutube(file) == FALSE

\* YT_RX.search(filename)
IsYoutube(file) == ~IsNone(Lookup(YtRxTable, Chars[file.path]))

Stem(file) == SplitExtRoot(Chars[file.path])

\* A pattern loop that takes up the registry where the loop of the previous file left it.
CascadeResume == pat

\* for pattern in MAIN_PATTERNS_COMPILED: the loop of every file starts at the first
\* pattern of the registry
CascadeStart == 1

\* the file loop hands files[idx] to scan_single_file; a web-video file is resolved
\* here, any other file enters the pattern loop
DispatchFile ==
  /\ pc = "files"
  /\ idx <= nfiles
  /\ attempted' = Append(attempted, idx)
  /\ consulted' = Append(consulted, <<>>)
  /\ \E file \in Universe :
     /\ files' = Append(files, file)
     /\ IF IsYoutube(file)
        THEN \E r \in {process_youtube_file(file, Stem(file))} :
             \E made \in {IF ~r.found THEN [raised |-> FALSE, objs |-> <<>>]
                          ELSE create_episode_media_object(path.show, r.data, file)} :
                 IF made.raised
                 THEN /\ log' = log \o r.logs \o <<LogLine("ERROR", FileErrorContinuation(idx).msg, file.path)>>
                      /\ pc' = FileErrorContinuation(idx).pc
                      /\ idx' = FileErrorContinuation(idx).idx
                      /\ resolved' = Append(resolved, [idx |-> idx, via |-> "youtube", data |-> r.data, first |-> Len(media_list) + 1, count |-> 0])
                      /\ UNCHANGED <<media_list, pat>>
                 ELSE /\ media_list' = media_list \o made.objs
                      /\ resolved' = IF ~r.found THEN resolved
                                     ELSE Append(resolved, [idx |-> idx, via |-> "youtube", data |-> r.data, first |-> Len(media_list) + 1, count |-> 1])
                      /\ log' = log \o r.logs \o
                           (IF ~r.found
                            THEN <<LogLine("ERROR", "Error processing YouTube file", file.path),
                                   LogLine("WARNING", "No pattern matched for file", file.path)>>
                            ELSE <<>>)
                      /\ idx' = idx + 1
                      /\ UNCHANGED <<pc, pat>>
        ELSE /\ pc' = "cascade"
             /\ pat' = CascadeStart
             /\ UNCHANGED <<media_list, resolved, log, idx>>
  /\ UNCHANGED <<config, main_patterns, multi_patterns, path, nfiles, escaped>>

\* A scanner that looks for an episode range in every resolved file, dated or not.
EmitEpisodesOfAnyRecord(data, file) ==
  Bind(MultiFrom(1, multi_patterns, Stem(file), data, path.show, file), LAMBDA multi :
    IF multi.raised THEN multi
    ELSE IF multi.objs # <<>> THEN multi
    ELSE create_episode_media_object(path.show, data, file))

\* A scanner that takes whatever the expander returns once a range pattern matched the
\* stem, an empty list included.
EmitEpisodesOfMatchedRange(data, file) ==
  IF ~Truthy(data.released_date) /\ \E i \in 1..Len(multi_patterns) : ~IsNone(Lookup(MultiSearchTable, <<multi_patterns[i], Stem(file)>>))
  THEN MultiFrom(1, multi_patterns, Stem(file), data, path.show, file)
  ELSE create_episode_media_object(path.show, data, file)

\* the objects a resolved record contributes: the multi-episode objects when the record
\* has no release date and the expander returns some, else the single object
EmitEpisodes(data, file) ==
  Bind(IF ~Truthy(data.released_date)
       THEN MultiFrom(1, multi_patterns, Stem(file), data, path.show, file)
       ELSE [raised |-> FALSE, objs |-> <<>>], LAMBDA multi :
    IF multi.raised THEN multi
    ELSE IF multi.objs # <<>> THEN multi
    ELSE create_episode_media_object(path.show, data, file))

\* A pattern loop that goes on to the next pattern after a record was appended.
CascadeContinue(i, p) == [pc |-> "cascade", idx |-> i, pat |-> p + 1]

\* the break of the pattern loop once a pattern gave a record: scan_single_file
\* returns and the file loop takes the next file
CascadeBreak(i, p) == [pc |-> "files", idx |-> i + 1, pat |-> p]

\* one turn of the pattern loop of scan_single_file
TryPattern ==
  /\ pc = "cascade"
  /\ pat <= Len(main_patterns)
  /\ consulted' = [consulted EXCEPT ![Len(consulted)] = Append(@, main_patterns[pat])]
  /\ LET file == files[idx]
         match == Lookup(MainMatchTable, <<main_patterns[pat], Stem(file)>>)
     IN  IF IsNone(match)
         THEN /\ pat' = pat + 1
              /\ UNCHANGED <<pc, idx, media_list, resolved, log>>
         ELSE \E r \in {process_regex_match(match.groups, path.show, file)} :
              \E made \in {IF r.kind = "record" THEN EmitEpisodes(r.data, file) ELSE [raised |-> FALSE, objs |-> <<>>]} :
                  IF r.kind = "raise" \/ made.raised
                  THEN /\ log' = log \o r.logs \o <<LogLine("ERROR", FileErrorContinuation(idx).msg, file.path)>>
                       /\ pc' = FileErrorContinuation(idx).pc
                       /\ idx' = FileErrorContinuation(idx).idx
                       /\ resolved' = IF r.kind = "record"
                                      THEN Append(resolved, [idx |-> idx, via |-> main_patterns[pat], data |-> r.data, first |-> Len(media_list) + 1, count |-> 0])
                                      ELSE resolved
                       /\ UNCHANGED <<media_list, pat>>
                  ELSE IF r.kind = "none"
                  THEN /\ log' = log \o r.logs \o <<LogLine("ERROR", "Error processing match", file.path)>>
                       /\ pat' = pat + 1
                       /\ UNCHANGED <<pc, idx, media_list, resolved>>
                  ELSE /\ media_list' = media_list \o made.objs
                       /\ resolved' = Append(resolved, [idx |-> idx, via |-> main_patterns[pat], data |-> r.data, first |-> Len(media_list) + 1, count |-> Len(made.objs)])
                       /\ log' = log \o r.logs
                       /\ pc' = CascadeBreak(idx, pat).pc
                       /\ idx' = CascadeBreak(idx, pat).idx
                       /\ pat' = CascadeBreak(idx, pat).pat
  /\ UNCHANGED <<config, main_patterns, multi_patterns, path, nfiles, files, attempted, escaped>>

\* A scanner that files an unmatched file as episode 1 of season 1.
UnmatchedGetsRecord ==
  /\ pc = "cascade"
  /\ pat > Len(main_patterns)
  /\ media_list' = Append(media_list, [show |-> path.show, season |-> 1, episode |-> 1, title |-> PyNone, year |-> PyNone,
                                       released_at |-> PyNone, display_offset |-> PyNone, parts |-> <<files[idx].path>>])
  /\ log' = Append(log, LogLine("WARNING", "No pattern matched for file", files[idx].path))
  /\ pc' = "files"
  /\ idx' = idx + 1
  /\ UNCHANGED <<config, main_patterns, multi_patterns, path, nfiles, files, pat, attempted, consulted, resolved, escaped>>

\* the pattern loop ran out: found_match is False
NoPatternMatched ==
  /\ pc = "cascade"
  /\ pat > Len(main_patterns)
  /\ log' = Append(log, LogLine("WARNING", "No pattern matched for file", files[idx].path))
  /\ pc' = "files"
  /\ idx' = idx + 1
  /\ UNCHANGED <<config, main_patterns, multi_patterns, path, nfiles, files, media_list, pat, attempted, consulted, resolved, escaped>>

\* after the file loop: Stack.Scan (which may raise, to the handler of Scan), and Scan
\* returns
StackScan ==
  /\ pc = "files"
  /\ idx > nfiles
  /\ \E stack_raises \in BOOLEAN :
       log' = IF stack_raises THEN Append(log, LogLine("ERROR", "Critical error scanning", "path")) ELSE log
  /\ pc' = "done"
  /\ UNCHANGED <<config, main_patterns, multi_patterns, path, nfiles, files, media_list, idx, pat, attempted, consulted, resolved, escaped>>

\* Scan has returned; the host may call it again.  The histories of the finished scan
\* and its log lines are dropped.
Return ==
  /\ pc = "done"
  /\ pc' = "ready"
  /\ path' = BadPath
  /\ nfiles' = 0
  /\ files' = <<>>
  /\ media_list' = <<>>
  /\ idx' = 1
  /\ pat' = 1
  /\ attempted' = <<>>
  /\ consulted' = <<>>
  /\ resolved' = <<>>
  /\ escaped' = FALSE
  /\ log' = compile_regex_patterns(config).logs
  /\ UNCHANGED <<config, main_patterns, multi_patterns>>

Next == CompileRegexPatterns \/ Scan \/ DispatchFile \/ TryPattern \/ NoPatternMatched \/ StackScan \/ Return
Spec == Init /\ [][Next]_vars
SpecRegistry == InitRegistry /\ [][CompileRegexPatterns]_vars

\* ------------------------------------------------------------------------
\* Properties
\* ------------------------------------------------------------------------
\* the lines of the log with this message
LogLinesOf(msg) == {k \in 1..Len(log) : log[k].msg = msg}

\* C1: no exception leaves Scan; with a valid show path the files are handed to
\* scan_single_file in list order, a scan that attempted any file returns only after
\* it attempted every file of the list (whatever was raised on the way), and no step
\* of the file loop removes or changes a record that is already in media_list.
ScanAttemptsEveryFile ==
  /\ ~escaped
  /\ attempted = [i \in 1..Len(attempted) |-> i]
  /\ (pc = "done" /\ attempted # <<>>) => Len(attempted) = nfiles
KeepsRecords ==
  pc \in {"files", "cascade"} =>
    /\ Len(media_list') >= Len(media_list)
    /\ SubSeq(media_list', 1, Len(media_list)) = media_list
C1_ScanSurvivesFileErrors == []ScanAttemptsEveryFile /\ [][KeepsRecords]_vars

\* C2: for every file on the generic path the patterns matched against its stem are
\* the registry from its start, in registry order, without gaps; every pattern
\* before the last one consulted did not match or gave no record; a file has at
\* most one resolution; the pattern it came from is the last one consulted for the
\* file, and every object the file contributed belongs to that resolution.
GenericAttempts == {k \in 1..Len(attempted) : ~IsYoutube(files[k])}
GivesRecord(p, k) ==
  /\ ~IsNone(Lookup(MainMatchTable, <<p, Stem(files[k])>>))
  /\ process_regex_match(Lookup(MainMatchTable, <<p, Stem(files[k])>>).groups, path.show, files[k]).kind = "record"
C2_CascadeStopsAtFirstRecord ==
  /\ \A k \in GenericAttempts :
        /\ Len(consulted[k]) <= Len(main_patterns)
        /\ consulted[k] = SubSeq(main_patterns, 1, Len(consulted[k]))
        /\ \A j \in 1..(Len(consulted[k]) - 1) : ~GivesRecord(consulted[k][j], k)
  /\ \A a, b \in 1..Len(resolved) : resolved[a].idx = resolved[b].idx => a = b
  /\ \A a \in 1..Len(resolved) :
        ~IsYoutube(files[resolved[a].idx]) =>
          /\ consulted[resolved[a].idx] # <<>>
          /\ resolved[a].via = consulted[resolved[a].idx][Len(consulted[resolved[a].idx])]
  /\ \A m \in 1..Len(media_list) :
        \E a \in 1..Len(resolved) :
          /\ resolved[a].first <= m /\ m < resolved[a].first + resolved[a].count
          /\ media_list[m].parts = <<files[resolved[a].idx].path>>

\* a file took its records from a pattern that is not the first of the registry,
\* while a later pattern of the registry matches its stem too and was not consulted;
\* the file contributed more than one record
C2_Witness ==
  \E a \in 1..Len(resolved) :
    LET k == resolved[a].idx
    IN  /\ ~IsYoutube(files[k])
        /\ Len(consulted[k]) > 1
        /\ resolved[a].count > 1
        /\ \E j \in (Len(consulted[k]) + 1)..Len(main_patterns) :
              ~IsNone(Lookup(MainMatchTable, <<main_patterns[j], Stem(files[k])>>))

\* the entries of the configuration file, when it is there and loads
UserSupplied == IF config.exists /\ config.loads THEN config.data ELSE <<>>
\* the ERROR lines of the custom compile loop, in order
CustomCompileErrors ==
  SelectSeq([k \in 1..Len(log) |-> IF log[k].msg = "Error compiling custom pattern" THEN log[k].about ELSE "-"],
            LAMBDA a : a # "-")

\* C3 as the specification states it: once the registry is built it holds every
\* user-supplied entry that compiles, in file order, then every built-in pattern.
C3_EveryCompilingEntryRegistered ==
  pc = "ready" =>
    main_patterns = SelectSeq(UserSupplied, Compiles) \o DEFAULT_PARSING_PATTERNS

\* C3: once the registry is built it holds every non-empty user-supplied entry that
\* compiles, in file order, then every built-in pattern in listed order; each
\* non-empty entry that does not compile is left out and has an ERROR line, in file
\* order; an empty entry is left out without a line.
C3_RegistryOrder ==
  pc = "ready" =>
    /\ main_patterns = SelectSeq(UserSupplied, LAMBDA p : p # "U_EMPTY" /\ p # "U_BAD") \o DEFAULT_PARSING_PATTERNS
    /\ CustomCompileErrors = SelectSeq(UserSupplied, LAMBDA p : p = "U_BAD")
    /\ multi_patterns = MULTI_EPISODE_PATTERNS

\* a registry built from a file whose second entry does not compile and whose third
\* is empty: the first entry is registered ahead of the built-in patterns
C3_Witness ==
  /\ pc = "ready"
  /\ Len(UserSupplied) = 3
  /\ UserSupplied[2] = "U_BAD"
  /\ UserSupplied[3] = "U_EMPTY"
  /\ Len(main_patterns) = Len(DEFAULT_PARSING_PATTERNS) + 1
  /\ main_patterns[1] = UserSupplied[1]
  /\ Len(CustomCompileErrors) = 1

\* the fields a file's .nfo sidecar supplies with a non-empty value
NfoSupplies(file) ==
  IF file.nfo.exists /\ file.nfo.parses
  THEN {f \in DOMAIN file.nfo.fields \cap {"season", "episode", "title", "year"} :
          Strip(file.nfo.fields[f].s, Whitespace) # <<>>}
  ELSE {}

\* C4: every record resolved on the generic path has, for each of season, episode,
\* title and year that the file's .nfo sidecar supplies, the sidecar's value in that
\* field (season, episode and year as integers); so a sidecar episode is never
\* widened.
C4_SidecarOverrides ==
  \A a \in 1..Len(resolved) :
    LET file == files[resolved[a].idx]
    IN  ~IsYoutube(file) =>
          \A f \in NfoSupplies(file) :
            resolved[a].data[f] =
              IF f = "title" THEN PyStr(Strip(file.nfo.fields[f].s, Whitespace))
              ELSE PyInt(StrToInt(Strip(file.nfo.fields[f].s, Whitespace)))

\* the range E<start>-E<end> in the stem of a file, when there is one
RangeOf(file) == Lookup(MultiSearchTable, <<"M1", Stem(file)>>)

\* C5: a file resolved without a release date whose stem holds a range
\* E<start>-E<end> with start <= end contributes exactly end-start+1 objects, next to
\* each other in media_list; the one at zero-based position k has episode start+k
\* and display offset floor(k*100/count), and each has the season, title and year
\* of the resolved record.
C5_MultiEpisodeExpansion ==
  \A a \in 1..Len(resolved) :
    LET file == files[resolved[a].idx]
        data == resolved[a].data
        first == resolved[a].first
    IN  (~IsYoutube(file) /\ ~Truthy(data.released_date) /\ ~IsNone(RangeOf(file))) =>
          LET start == StrToInt(RangeOf(file).groups.start.s)
              end == StrToInt(RangeOf(file).groups.end.s)
              count == end - start + 1
          IN  start <= end =>
                /\ resolved[a].count = count
                /\ Len(media_list) >= first + count - 1
                /\ \A k \in 0..(count - 1) :
                      /\ media_list[first + k].episode = start + k
                      /\ media_list[first + k].display_offset = PyInt((k * 100) \div count)
                      /\ media_list[first + k].season = StrToInt(PyStrOf(data.season))
                      /\ media_list[first + k].title = data.title
                      /\ media_list[first + k].year = data.year
                      /\ media_list[first + k].parts = <<file.path>>

\* two expanded files in one scan: E01-E05 gave episodes 1..5 at offsets 0, 20, 40,
\* 60, 80 and E02-E04 gave episodes 2..4 at offsets 0, 33, 66
C5_Witness ==
  /\ Len(media_list) = 8
  /\ [m \in 1..8 |-> media_list[m].episode] = <<1, 2, 3, 4, 5, 2, 3, 4>>
  /\ [m \in 1..8 |-> media_list[m].display_offset] =
       <<PyInt(0), PyInt(20), PyInt(40), PyInt(60), PyInt(80), PyInt(0), PyInt(33), PyInt(66)>>

\* C6: resolution does not read the modification time: two files of a scan with the
\* same name and the same sidecars, whatever their modification times, resolve to
\* the same record, the widened episode number included.
SameButMtime(f, g) == f.path = g.path /\ f.nfo = g.nfo /\ f.json = g.json
C6_DeterministicInStem ==
  \A a, b \in 1..Len(resolved) :
    SameButMtime(files[resolved[a].idx], files[resolved[b].idx]) => resolved[a].data = resolved[b].data

\* one scan resolved the same name twice, found with two modification times, and
\* both records have the same widened episode number
C6_Witness ==
  /\ Len(resolved) = 2
  /\ files[1].path = files[2].path
  /\ files[1].mtime # files[2].mtime
  /\ resolved[1].data.episode = resolved[2].data.episode
  /\ IsInt(resolved[1].data.episode)
  /\ resolved[1].data.episode.n >= 100000000

\* C7: two files of one scan, resolved on the generic path to the same release date
\* from different stems, have different episode numbers.
C7_NoEpisodeCollision ==
  \A a, b \in 1..Len(resolved) :
    LET f == files[resolved[a].idx]
        g == files[resolved[b].idx]
    IN  (/\ ~IsYoutube(f) /\ ~IsYoutube(g)
         /\ Stem(f) # Stem(g)
         /\ Truthy(resolved[a].data.released_date)
         /\ resolved[a].data.released_date = resolved[b].data.released_date)
        => resolved[a].data.episode # resolved[b].data.episode

\* the stem of the file at position k of the list matches no pattern of the registry
Unmatched(k) ==
  \A j \in 1..Len(main_patterns) : IsNone(Lookup(MainMatchTable, <<main_patterns[j], Stem(files[k])>>))

\* C8: a generic-path file that matches no pattern of the registry never changes
\* media_list while it is in the pattern loop; it leaves the loop with a "No pattern
\* matched" line and the file loop at the next position; and once the loop is past
\* it, it has no resolution, no object of media_list has it among its parts, and the
\* log has the line.
UnmatchedLeavesNothing ==
  \A k \in GenericAttempts :
    (k < idx /\ Unmatched(k)) =>
      /\ \A a \in 1..Len(resolved) : resolved[a].idx # k
      /\ \A m \in 1..Len(media_list) : media_list[m].parts # <<files[k].path>>
      /\ \E n \in LogLinesOf("No pattern matched for file") : log[n].about = files[k].path
UnmatchedStep ==
  (pc = "cascade" /\ Unmatched(idx)) =>
    /\ media_list' = media_list
    /\ pc' # "cascade" =>
          /\ pc' = "files"
          /\ idx' = idx + 1
          /\ log' = Append(log, LogLine("WARNING", "No pattern matched for file", files[idx].path))
C8_UnmatchedFileSkipped == []UnmatchedLeavesNothing /\ [][UnmatchedStep]_vars

\* the first file of two matched no pattern and the second, attempted after it, gave
\* the only record of the returned list
C8_Witness ==
  /\ pc = "done"
  /\ attempted = <<1, 2>>
  /\ Unmatched(1)
  /\ Len(consulted[1]) = Len(main_patterns)
  /\ Len(resolved) = 1
  /\ resolved[1].idx = 2
  /\ resolved[1].count = 1
  /\ Len(media_list) = 1
  /\ media_list[1].parts = <<files[2].path>>

\* C9: every record a resolver returns has a season, so none has season and episode
\* both null; process_regex_match never returns None to the pattern loop (no
\* "Error processing match" line is ever written); and every object of media_list
\* has an integer season and an integer episode.
C9_NeverBothNull ==
  /\ \A a \in 1..Len(resolved) :
        /\ ~IsNone(resolved[a].data.season)
        /\ ~(IsNone(resolved[a].data.season) /\ IsNone(resolved[a].data.episode))
  /\ LogLinesOf("Error processing match") = {}
  /\ \A m \in 1..Len(media_list) : media_list[m].season \in Int /\ media_list[m].episode \in Int

\* a match that captured neither a season nor an episode nor a date: the resolver
\* returned a record with the default season and no episode, making the object
\* raised, and the file left nothing in media_list
C9_Witness ==
  \E a \in 1..Len(resolved) :
    /\ resolved[a].data.season = PyInt(1)
    /\ IsNone(resolved[a].data.episode)
    /\ resolved[a].count = 0
    /\ \A m \in 1..Len(media_list) : media_list[m].parts # <<files[resolved[a].idx].path>>
    /\ \E k \in LogLinesOf("Error processing file") : log[k].about = files[resolved[a].idx].path

\* the groups of the match a generic-path resolution came from
GroupsOf(a) == Lookup(MainMatchTable, <<resolved[a].via, Stem(files[resolved[a].idx])>>).groups

\* C10: a record resolved on the generic path from a match that captured a non-empty
\* year, month and day has released_date "<year>-<month>-<day>" of the captured
\* texts, the year with "20" put before it when it was captured with two digits;
\* a record from any other match has released_date null.
C10_ReleasedDate ==
  \A a \in 1..Len(resolved) :
    ~IsYoutube(files[resolved[a].idx]) =>
      LET y == Get(GroupsOf(a), "year")
          m == Get(GroupsOf(a), "month")
          d == Get(GroupsOf(a), "day")
      IN  IF Truthy(y) /\ Truthy(m) /\ Truthy(d)
          THEN resolved[a].data.released_date =
                 PyStr((IF Len(y.s) = 2 THEN <<"2", "0">> ELSE <<>>) \o y.s \o <<"-">> \o m.s \o <<"-">> \o d.s)
          ELSE resolved[a].data.released_date = PyNone

\* one scan resolved a stem whose year was captured with two digits to 2024-07-02, and
\* a stem without a date to a record without a release date
C10_Witness ==
  /\ Len(resolved) = 2
  /\ ~IsYoutube(files[1]) /\ ~IsYoutube(files[2])
  /\ Get(GroupsOf(1), "year") = PyStr(<<"2", "4">>)
  /\ resolved[1].data.released_date = PyStr(<<"2", "0", "2", "4", "-", "0", "7", "-", "0", "2">>)
  /\ IsNone(Get(GroupsOf(2), "year"))
  /\ resolved[2].data.released_date = PyNone

\* C11: for every title a generic-path match captured, clean_title of it and the show
\* name is a text that does not hold the show name (in any letter case), holds no
\* bracketed group, and neither begins nor ends with a hyphen or a whitespace
\* character.
IsClean(t, show) ==
  /\ ~Contains(Lower(t), Lower(show))
  /\ ~\E i, j \in 1..Len(t) : t[i] = "[" /\ t[j] = "]" /\ j > i + 1
  /\ t # <<>> => (t[1] \notin Whitespace \cup {"-"} /\ t[Len(t)] \notin Whitespace \cup {"-"})
C11_CleanTitle ==
  \A a \in 1..Len(resolved) :
    (~IsYoutube(files[resolved[a].idx]) /\ Truthy(Get(GroupsOf(a), "title"))) =>
      \E t \in {clean_title(Get(GroupsOf(a), "title"), path.show)} : IsStr(t) /\ IsClean(t.s, path.show.s)

\* the episode number of a generic-path resolution before any widening, as far as
\* the file name gives it: the captured one, else "1" month day of a captured date
EpisodeOfName(a) ==
  LET g == GroupsOf(a)
  IN  IF Truthy(Get(g, "episode")) THEN g.episode
      ELSE IF Truthy(Get(g, "year")) /\ Truthy(Get(g, "month")) /\ Truthy(Get(g, "day"))
           THEN PyInt(StrToInt(<<"1">> \o g.month.s \o g.day.s))
           ELSE PyNone

\* C12: a generic-path record has the unique ID of its file as the last four digits
\* after its episode number exactly when it has a release date, the episode number
\* has fewer than 8 digits and the .nfo sidecar supplies no episode; otherwise the
\* episode is the one of the file name, or the sidecar's when the sidecar supplies
\* one.  What the sidecar says of season, title and year plays no part.
C12_WidenedExactlyWhen ==
  \A a \in 1..Len(resolved) :
    LET file == files[resolved[a].idx]
        data == resolved[a].data
    IN  ~IsYoutube(file) =>
          \E base \in {EpisodeOfName(a)} :
            IF Truthy(data.released_date) /\ Len(PyStrOf(base)) < 8 /\ "episode" \notin NfoSupplies(file)
            THEN /\ IsInt(data.episode)
                 /\ data.episode.n \div 10000 = StrToInt(PyStrOf(base))
                 /\ data.episode.n % 10000 = create_unique_episode_id(file)
            ELSE \/ data.episode = base
                 \/ /\ "episode" \in NfoSupplies(file)
                    /\ data.episode = PyInt(StrToInt(Strip(file.nfo.fields.episode.s, Whitespace)))

\* C13: a generic-path record with a release date contributes exactly one object, and
\* that object has no display offset, whether or not the stem holds a range
\* E<start>-E<end>.
C13_DatedFileNotExpanded ==
  \A a \in 1..Len(resolved) :
    (~IsYoutube(files[resolved[a].idx]) /\ Truthy(resolved[a].data.released_date)) =>
      /\ resolved[a].count = 1
      /\ Len(media_list) >= resolved[a].first
      /\ media_list[resolved[a].first].display_offset = PyNone
      /\ media_list[resolved[a].first].parts = <<files[resolved[a].idx].path>>

\* a file with a release date whose stem holds the range E01-E05 contributed one
\* object
C13_Witness ==
  \E a \in 1..Len(resolved) :
    /\ ~IsYoutube(files[resolved[a].idx])
    /\ Truthy(resolved[a].data.released_date)
    /\ ~IsNone(RangeOf(files[resolved[a].idx]))
    /\ StrToInt(RangeOf(files[resolved[a].idx]).groups.start.s) < StrToInt(RangeOf(files[resolved[a].idx]).groups.end.s)
    /\ resolved[a].count = 1
    /\ media_list[resolved[a].first].display_offset = PyNone

\* the dates the three sources of the JSON reader give for a file, in priority order:
\* upload_date, epoch, the leading date of the file name (PyNone where there is none)
JsonDateSources(file) ==
  LET data == file.json.data
  IN  << IF Truthy(Get(data, "upload_date")) THEN Lookup(YtJsonDateTable, data["upload_date"].s) ELSE PyNone,
         IF Truthy(Get(data, "epoch")) THEN Lookup(YtJsonDateTable, GmtimeTable[data["epoch"].s]) ELSE PyNone,
         Lookup(YtFileDateTable, Stem(file)) >>

\* C14: a web-video file whose .info.json loads is resolved with the month and day of
\* the first of upload_date, epoch and file name that gives a date, and is left
\* without a record only when none of the three gives one.
C14_DateSourceFallback ==
  \A k \in 1..Len(attempted) :
    (k < idx /\ IsYoutube(files[k]) /\ files[k].json.exists /\ files[k].json.loads) =>
      LET src == JsonDateSources(files[k])
          given == {i \in 1..3 : ~IsNone(src[i])}
      IN  IF given = {}
          THEN \A a \in 1..Len(resolved) : resolved[a].idx # k
          ELSE \E a \in 1..Len(resolved) :
                 /\ resolved[a].idx = k
                 /\ \E i \in given :
                      /\ \A j \in given : i <= j
                      /\ resolved[a].data.month = src[i].groups.month
                      /\ resolved[a].data.day = src[i].groups.day

\* the file with an existing sidecar that cannot be read or parsed taken away
WithoutBrokenSidecars(file) ==
  [file EXCEPT !.nfo = IF file.nfo.exists /\ ~file.nfo.parses THEN NfoAbsent ELSE @,
               !.json = IF file.json.exists /\ ~file.json.loads THEN JsonAbsent ELSE @]
\* what the file at position k of the list was resolved to, and how many objects it gave
OutcomeOf(k) == {[data |-> resolved[a].data, count |-> resolved[a].count] : a \in {b \in 1..Len(resolved) : resolved[b].idx = k}}

\* C15: of two files of a scan that differ only in that the one has a sidecar that
\* cannot be read or parsed where the other has none, both are resolved to the same
\* record.
C15_BrokenSidecarAsAbsent ==
  \A i, j \in 1..Len(attempted) :
    (/\ i < idx /\ j < idx
     /\ files[i] # files[j]
     /\ WithoutBrokenSidecars(files[i]) = files[j]) => OutcomeOf(i) = OutcomeOf(j)

\* C16: an exception raised while one pattern's match is resolved counts as "no match for
\* this pattern": the pattern loop of a file only ends with a record that gave objects
\* or with the registry exhausted, so a finished file that got no object was matched
\* against every pattern of the registry.
C16_RaisingMatchIsNoMatch ==
  \A k \in 1..Len(attempted) :
    (k < idx /\ IsNone(Lookup(YtRxTable, Chars[files[k].path])))
      => \/ consulted[k] = main_patterns
         \/ \E a \in 1..Len(resolved) : resolved[a].idx = k /\ resolved[a].count > 0

\* the objects of media_list made of the file at position k of the scan
ObjectsOf(k) ==
  {m \in 1..Len(media_list) :
     \E a \in 1..Len(resolved) :
       resolved[a].idx = k /\ m >= resolved[a].first /\ m < resolved[a].first + resolved[a].count}

\* C17: a file whose name holds a bracketed 11-character video identifier is resolved by
\* the web-video path only: no pattern of the registry is matched against it, every
\* record it has comes from the web-video resolvers, no multi-episode objects are made
\* of it, and it contributes at most one object, also when the web-video path gave none.
C17_DispatchExclusive ==
  \A k \in 1..Len(attempted) :
    ~IsNone(Lookup(YtRxTable, Chars[files[k].path]))
      => /\ consulted[k] = <<>>
         /\ ~(pc = "cascade" /\ idx = k)
         /\ \A a \in 1..Len(resolved) : resolved[a].idx = k => resolved[a].via = "youtube" /\ resolved[a].count <= 1
         /\ Cardinality({a \in 1..Len(resolved) : resolved[a].idx = k}) <= 1
         /\ Cardinality(ObjectsOf(k)) <= 1
         /\ \A m \in ObjectsOf(k) : IsNone(media_list[m].display_offset)

\* a web-video file whose sidecar could not be read was finished without a record,
\* although a pattern of the registry matches its stem
C17_Witness ==
  \E k \in 1..Len(attempted) :
    /\ k < idx
    /\ ~IsNone(Lookup(YtRxTable, Chars[files[k].path]))
    /\ \A a \in 1..Len(resolved) : resolved[a].idx # k
    /\ \E p \in 1..Len(main_patterns) : ~IsNone(Lookup(MainMatchTable, <<main_patterns[p], Stem(files[k])>>))
    /\ consulted[k] = <<>>

\* C18: the season of a record resolved on the generic path is the captured season when
\* the match captured one; else the captured year, "20" put before it when it has two
\* digits, padded with zeros on the left to four characters, when the match captured a
\* year; else the integer 1.  It is never null.
C18_SeasonDefault ==
  \A a \in 1..Len(resolved) :
    IsNone(Lookup(YtRxTable, Chars[files[resolved[a].idx].path])) =>
      LET s == Get(GroupsOf(a), "season")
          y == Get(GroupsOf(a), "year")
      IN  /\ ~IsNone(resolved[a].data.season)
          /\ resolved[a].data.season =
               IF Truthy(s) THEN s
               ELSE IF Truthy(y)
                    THEN PyStr(PadLeft((IF Len(y.s) = 2 THEN <<"2", "0">> ELSE <<>>) \o y.s, 4))
                    ELSE PyInt(1)

\* one scan resolved a stem whose year was captured with three digits to season "0123",
\* and a stem whose match captured neither season nor year to season 1
C18_Witness ==
  /\ Len(resolved) = 2
  /\ IsNone(Lookup(YtRxTable, Chars[files[1].path])) /\ IsNone(Lookup(YtRxTable, Chars[files[2].path]))
  /\ resolved[1].idx = 1 /\ resolved[2].idx = 2
  /\ IsNone(Get(GroupsOf(1), "season"))
  /\ Get(GroupsOf(1), "year") = PyStr(<<"1", "2", "3">>)
  /\ resolved[1].data.season = PyStr(<<"0", "1", "2", "3">>)
  /\ IsNone(Get(GroupsOf(2), "season")) /\ IsNone(Get(GroupsOf(2), "year"))
  /\ resolved[2].data.season = PyInt(1)

\* the generic-path resolutions whose match captured a year, a month and a day and no
\* episode number
Synthesized ==
  {a \in 1..Len(resolved) :
     /\ IsNone(Lookup(YtRxTable, Chars[files[resolved[a].idx].path]))
     /\ ~Truthy(Get(GroupsOf(a), "episode"))
     /\ Truthy(Get(GroupsOf(a), "year")) /\ Truthy(Get(GroupsOf(a), "month")) /\ Truthy(Get(GroupsOf(a), "day"))}

\* the episode number of a record with the four digits of the unique ID taken off when
\* the record was widened
Unwidened(data) ==
  IF Truthy(data.released_date) /\ IsInt(data.episode)
  THEN data.episode.n \div 10000
  ELSE IF IsInt(data.episode) THEN data.episode.n ELSE StrToInt(data.episode.s)

\* C19: a generic-path record whose match captured a date and no episode number has,
\* before the unique ID is put after it, the episode number written "1", the two
\* digits of the month, the two digits of the day; two such records of different
\* (month, day) have different numbers; and a record whose match captured an episode
\* number keeps that number.
C19_EpisodeDefault ==
  \A a \in 1..Len(resolved) :
    IsNone(Lookup(YtRxTable, Chars[files[resolved[a].idx].path])) =>
      Bind(GroupsOf(a), LAMBDA g :
        IF Truthy(Get(g, "episode")) THEN Unwidened(resolved[a].data) = StrToInt(g.episode.s)
        ELSE (Truthy(Get(g, "year")) /\ Truthy(Get(g, "month")) /\ Truthy(Get(g, "day"))) =>
               Bind(Unwidened(resolved[a].data), LAMBDA n :
                 /\ Len(g.month.s) = 2 /\ Len(g.day.s) = 2
                 /\ n = StrToInt(<<"1">> \o g.month.s \o g.day.s)
                 /\ \A b \in 1..(a - 1) :
                      IsNone(Lookup(YtRxTable, Chars[files[resolved[b].idx].path])) =>
                        Bind(GroupsOf(b), LAMBDA h :
                          (/\ ~Truthy(Get(h, "episode"))
                           /\ Truthy(Get(h, "year")) /\ Truthy(Get(h, "month")) /\ Truthy(Get(h, "day"))
                           /\ <<h.month, h.day>> # <<g.month, g.day>>)
                            => Unwidened(resolved[b].data) # n)))

\* one scan resolved two stems without episode number, of the dates 07-02 and 07-05,
\* to the episode numbers 10702 and 10705 before widening
C19_Witness ==
  /\ Synthesized = {1, 2}
  /\ GroupsOf(1).month = PyStr(<<"0", "7">>) /\ GroupsOf(1).day = PyStr(<<"0", "2">>)
  /\ GroupsOf(2).month = PyStr(<<"0", "7">>) /\ GroupsOf(2).day = PyStr(<<"0", "5">>)
  /\ Unwidened(resolved[1].data) = 10702
  /\ Unwidened(resolved[2].data) = 10705

\* what scan_single_file makes of a file on the generic path when the pattern loop is
\* at pattern p, computed from the file, the registry and the show name alone: how
\* many patterns are matched against the stem, whether a record is returned, the
\* record and the objects made of it
RECURSIVE AloneFrom(_, _)
AloneFrom(file, p) ==
  IF p > Len(main_patterns) THEN [consulted |-> p - 1, found |-> FALSE]
  ELSE Bind(Lookup(MainMatchTable, <<main_patterns[p], Stem(file)>>), LAMBDA match :
         IF IsNone(match) THEN AloneFrom(file, p + 1)
         ELSE Bind(process_regex_match(match.groups, path.show, file), LAMBDA r :
                IF r.kind = "none" THEN AloneFrom(file, p + 1)
                ELSE IF r.kind = "raise" THEN [consulted |-> p, found |-> FALSE]
                ELSE Bind(EmitEpisodes(r.data, file), LAMBDA made :
                       [consulted |-> p, found |-> TRUE, data |-> r.data,
                        objs |-> IF made.raised THEN <<>> ELSE made.objs])))

\* the same for any file: a web-video file is matched against no pattern
Alone(file) ==
  IF IsNone(Lookup(YtRxTable, Chars[file.path])) THEN AloneFrom(file, 1)
  ELSE Bind(process_youtube_file(file, Stem(file)), LAMBDA r :
         IF ~r.found THEN [consulted |-> 0, found |-> FALSE]
         ELSE Bind(create_episode_media_object(path.show, r.data, file), LAMBDA made :
                [consulted |-> 0, found |-> TRUE, data |-> r.data,
                 objs |-> IF made.raised THEN <<>> ELSE made.objs]))

\* what the scan made of the file at position k
InScan(k) ==
  LET mine == {a \in 1..Len(resolved) : resolved[a].idx = k}
  IN  IF mine = {} THEN [consulted |-> Len(consulted[k]), found |-> FALSE]
      ELSE Bind(CHOOSE a \in mine : TRUE, LAMBDA a :
             [consulted |-> Len(consulted[k]), found |-> TRUE, data |-> resolved[a].data,
              objs |-> SubSeq(media_list, resolved[a].first, resolved[a].first + resolved[a].count - 1)])

\* C20: what the scan makes of a file depends on the file, the registry and the show
\* name only.  Every step that finishes a file leaves the patterns matched against it
\* equal to the registry from its first pattern on, and their number, the record and
\* the objects appended equal to those the file gives on its own, whichever files came
\* before it and whether they matched, failed or raised; the step changes nothing of
\* what earlier files left but the end of media_list.
FinishesFile == pc' = "files" /\ idx' = idx + 1 /\ Len(attempted') = idx
C20_StatelessAcrossFiles ==
  [][FinishesFile =>
       \A k \in {idx} :
         /\ \E file \in {files'[k]} : InScan(k)' = Alone(file)
         /\ consulted'[k] = SubSeq(main_patterns, 1, Len(consulted'[k]))
         /\ Cardinality({a \in 1..Len(resolved') : resolved'[a].idx = k}) <= 1
         /\ \A j \in 1..(k - 1) : consulted'[j] = consulted[j]
         /\ SubSeq(resolved', 1, Len(resolved)) = resolved
         /\ SubSeq(media_list', 1, Len(media_list)) = media_list]_vars

\* the second file of a scan was resolved by a later pattern of the registry than the
\* one at which the first file, another one, left the pattern loop with an exception
C20_Witness ==
  /\ pc = "files" /\ idx = 3 /\ Len(attempted) = 2
  /\ files[1] # files[2]
  /\ IsNone(Lookup(YtRxTable, Chars[files[1].path])) /\ IsNone(Lookup(YtRxTable, Chars[files[2].path]))
  /\ Len(consulted[1]) > 1
  /\ Len(consulted[2]) > Len(consulted[1])
  /\ \E a \in 1..Len(resolved) : resolved[a].idx = 2 /\ resolved[a].count > 0
  /\ \E k \in LogLinesOf("Error processing file") : log[k].about = files[1].path

\* a record whose episode number was synthesized from its date: any web-video record,
\* and a generic-path record with a release date whose match captured no episode
IsSynthesized(rec, file) ==
  /\ Truthy(rec.data.released_date)
  /\ \/ rec.via = "youtube"
     \/ ~Truthy(Get(Lookup(MainMatchTable, <<rec.via, Stem(file)>>).groups, "episode"))

\* month and day of a record as one number, month first
MonthDay(data) == StrToInt(data.month.s) * 100 + StrToInt(data.day.s)

\* C21: every step that adds a record with a synthesized episode number gives it the
\* number "1" month day followed by exactly four digits that make a number of
\* 1000..9999, the unique ID; and against every record with a synthesized episode
\* number resolved before it in the scan, on either path, the record of the earlier
\* (month, day) has the strictly smaller episode number.
C21_WideningKeepsDateOrder ==
  [][Len(resolved') = Len(resolved) + 1 =>
       \E r \in {resolved'[Len(resolved')]} :
       \E file \in {files'[r.idx]} :
         IsSynthesized(r, file) =>
           /\ IsInt(r.data.episode)
           /\ r.data.episode.n % 10000 \in 1000..9999
           /\ r.data.episode.n \div 10000 = 10000 + MonthDay(r.data)
           /\ \A b \in 1..Len(resolved) :
                IsSynthesized(resolved[b], files[resolved[b].idx]) =>
                  /\ MonthDay(resolved[b].data) < MonthDay(r.data)
                       => resolved[b].data.episode.n < r.data.episode.n
                  /\ MonthDay(resolved[b].data) > MonthDay(r.data)
                       => resolved[b].data.episode.n > r.data.episode.n]_vars

\* a web-video file of 07-01 and a generic-path file of 07-02 were resolved in one
\* scan; the earlier one has the greater unique ID and the smaller episode number
C21_Witness ==
  /\ Len(resolved) = 2
  /\ resolved[1].via = "youtube" /\ resolved[2].via # "youtube"
  /\ IsSynthesized(resolved[1], files[1]) /\ IsSynthesized(resolved[2], files[2])
  /\ MonthDay(resolved[1].data) = 701 /\ MonthDay(resolved[2].data) = 702
  /\ resolved[1].data.episode.n % 10000 > resolved[2].data.episode.n % 10000
  /\ resolved[1].data.episode.n < resolved[2].data.episode.n

\* the range pattern matches the stem of the file with end < start
ReversedRange(file) ==
  /\ ~IsNone(RangeOf(file))
  /\ StrToInt(RangeOf(file).groups.end.s) < StrToInt(RangeOf(file).groups.start.s)

C1_Witness ==
  /\ pc = "done"
  /\ nfiles = 2
  /\ attempted = <<1, 2>>
  /\ \E k \in LogLinesOf("Error processing file") : log[k].about = files[1].path
  /\ \E k \in 1..Len(resolved) : resolved[k].idx = 2 /\ resolved[k].count > 0
  /\ media_list # <<>>
=============================================================================
